---- MODULE Spec2Model ----
(***************************************************************************)
(* FedGuard / Fedora federated aggregation.                                *)
(*                                                                         *)
(* Two ingestion variants live in the repository and share no state:       *)
(*   - the queue-based variant: update_queue -> aggregation_worker ->      *)
(*     model_store (src/main/api/aggregator.py, detector.py,               *)
(*     model_store.py);                                                    *)
(*   - the buffer-based federated engine: process_update, rollback and     *)
(*     delete_latest over the GlobalModel table and the weights_bank files *)
(*     (src/main/federated_engine.py, src/main/api/endpoints.py).          *)
(*                                                                         *)
(* Coroutines are interleaved at their await points only (asyncio, one     *)
(* event loop): every action below is the code between two awaits.         *)
(*                                                                         *)
(* Numbers.  Client payload values are integers.  Aggregated values are    *)
(* exact rationals <<num, den>> in lowest terms with den > 0 (the code     *)
(* computes them in float64 / float32; rounding is not modelled).          *)
(***************************************************************************)
EXTENDS Integers, Sequences, FiniteSets, TLC

VARIABLES
    \* ---- model_store.py -------------------------------------------------
    _round_id,          \* module global _round_id
    _weights,           \* module global _weights: layer -> sequence of rationals
    _lock,              \* asyncio.Lock: "free" or the holder
    disk,               \* weights.json: [status, content], content <<>> or <<[round_id, weights]>>
    \* ---- aggregator.py --------------------------------------------------
    update_queue,       \* asyncio.Queue, a sequence of update dicts
    wpc,                \* where the aggregation_worker coroutine is suspended
    updates,            \* the worker's local batch
    clean,              \* the worker's local clean list
    new_weights,        \* the worker's local aggregate: <<>> before it exists, else <<weights>>
    new_round_id,       \* the worker's local result of set_weights: <<>> or <<round_id>>
    _stats,             \* live statistics
    roundHistory,       \* RoundHistory rows written by _save_round_to_db
    \* ---- callers and history (not program state) --------------------------
    nSubmitted,         \* number of updates submitted to the queue-based variant so far
    admission,          \* for every submission, its age in rounds and the answer it got
    initRound,          \* _round_id after module import
    nCompleted,         \* number of completed set_weights calls
    lastReturned,       \* <<>> or <<r>>, r the value the latest set_weights call returned
    lastPublished,      \* the version and weights of the latest completed set_weights call
    nAllFlagged,        \* rounds abandoned because every update was flagged
    nAggFailed,         \* rounds abandoned because aggregate raised
    nAggOk,             \* rounds whose aggregate returned
    batchLog,           \* for every update id, the number of worker batches it entered
    \* ---- federated_engine.py, endpoints.py ------------------------------
    GlobalModel,        \* the GlobalModel table: rows [version, weights_path] in order of creation
    weights_bank,       \* the files weights_bank/unified_v<n>.json: n -> weights
    _update_buffer,     \* module global _update_buffer: entries [id, delta]
    _reference_direction, \* module global: <<>> for the empty dict, else <<delta>>
    _session_accepted,  \* module global
    _session_rejected,  \* module global
    hpc,                \* for every request handler, where its coroutine is suspended
    hloc,               \* for every request handler, its local variables
    \* ---- callers and history of the engine (not program state) ----------
    nCalls,             \* number of process_update calls so far
    nAdmin,             \* number of rollback and delete_latest calls so far
    consumed,           \* for every submission id, the number of aggregations it was input to
    eventLog,           \* the publications and deletions so far, in order
    \* ---- direct calls of detector.py's functions -------------------------
    probe               \* the arguments and the result of a direct call; the Client table

storeVars == <<_round_id, _weights, _lock, disk>>
workerVars == <<update_queue, wpc, updates, clean, new_weights, new_round_id, _stats, roundHistory>>
queueHist == <<nSubmitted, admission, initRound, nCompleted, lastReturned, lastPublished, nAllFlagged,
              nAggFailed, nAggOk, batchLog>>
queueVars == <<storeVars, workerVars, queueHist>>

engineState == <<GlobalModel, weights_bank, _update_buffer, _reference_direction,
                _session_accepted, _session_rejected>>
engineHist == <<nCalls, nAdmin, consumed, eventLog>>
engineVars == <<engineState, hpc, hloc, engineHist>>

vars == <<queueVars, engineVars, probe>>

----------------------------------------------------------------------------
(* Bounds of the model *)

\* total number of updates the clients submit in one behaviour
MaxUpdates == 4
\* largest number of updates waiting in update_queue
MaxQueue == 1

(* Program constants *)
N_MIN_UPDATES == 3
MAX_WAIT_SECONDS == 30
NORM_RATIO == 5
\* COS_THRESHOLD = -0.3 = COS_THRESHOLD_NUM / COS_THRESHOLD_DEN
COS_THRESHOLD_NUM == -3
COS_THRESHOLD_DEN == 10
\* TRIM_RATIO = 0.2 = TRIM_RATIO_NUM / TRIM_RATIO_DEN
TRIM_RATIO_NUM == 1
TRIM_RATIO_DEN == 5

----------------------------------------------------------------------------
(* Arithmetic *)

Abs(x) == IF x < 0 THEN -x ELSE x

Max(a, b) == IF a >= b THEN a ELSE b

RECURSIVE GCD(_, _)
GCD(a, b) == IF b = 0 THEN a ELSE GCD(b, a % b)

\* the rational n/d (d > 0) in lowest terms
Rat(n, d) == LET g == GCD(Abs(n), d) IN <<n \div g, d \div g>>

\* the float values that are no numbers, among rationals: nan, inf and -inf
NaN == <<0, 0>>

PosInf == <<1, 0>>

NegInf == <<-1, 0>>

IsNaN(x) == x[2] = 0 /\ x[1] = 0

IsInf(x) == x[2] = 0 /\ x[1] # 0

IsFinite(x) == x[2] # 0

\* inf, -inf and nan in the integer-valued weight lists of the queue-based variant:
\* integers beyond every finite value and every squared norm of the model, in the
\* order np.sort gives them (nan last)
InfCode == 1000000000

NegInfCode == -InfCode

NaNCode == InfCode + 1

IsCode(x) == x = InfCode \/ x = NegInfCode \/ x = NaNCode

HasValue(s, x) == \E i \in 1..Len(s): s[i] = x

HasCode(s) == \E i \in 1..Len(s): IsCode(s[i])

RECURSIVE SumSeq(_)
SumSeq(s) == IF s = <<>> THEN 0 ELSE Head(s) + SumSeq(Tail(s))

SortInts(s) == SortSeq(s, LAMBDA x, y: x < y)

\* the middle value of a sorted sequence of odd length, the two middle values of one
\* of even length
Middle(sorted) ==
    LET n == Len(sorted) IN
    IF n % 2 = 1 THEN <<sorted[(n + 1) \div 2]>> ELSE <<sorted[n \div 2], sorted[n \div 2 + 1]>>

Dot(a, b) == SumSeq([j \in 1..Len(a) |-> a[j] * b[j]])

\* squared L2 norm (np.linalg.norm squared)
Norm2(a) == Dot(a, a)

\* column j of a stack of equally long vectors
Column(vs, j) == [i \in 1..Len(vs) |-> vs[i][j]]

\* np.stack raises on an empty list and on vectors of different lengths
Stackable(vs) == /\ vs # <<>>
                 /\ \A i \in 1..Len(vs): Len(vs[i]) = Len(vs[1])

----------------------------------------------------------------------------
(* detector.py: the weight codec *)

\* sorted() of the layer names that occur in the model: "W" < "b" in Python
LayerOrder == <<"W", "b">>

RECURSIVE ConcatLayers(_, _)
ConcatLayers(weights, names) ==
    IF names = <<>> THEN <<>>
    ELSE (IF Head(names) \in DOMAIN weights THEN weights[Head(names)] ELSE <<>>)
         \o ConcatLayers(weights, Tail(names))

_flatten(weights) == ConcatLayers(weights, LayerOrder)

RECURSIVE SizeOf(_, _)
SizeOf(template, names) ==
    IF names = <<>> THEN 0
    ELSE (IF Head(names) \in DOMAIN template THEN Len(template[Head(names)]) ELSE 0)
         + SizeOf(template, Tail(names))

\* offset of layer k in the flat vector: the sizes of the layers sorted before it
RECURSIVE OffsetOf(_, _, _)
OffsetOf(template, names, k) ==
    IF names = <<>> \/ Head(names) = k THEN 0
    ELSE (IF Head(names) \in DOMAIN template THEN Len(template[Head(names)]) ELSE 0)
         + OffsetOf(template, Tail(names), k)

\* reshape raises when a slice holds fewer values than the template's layer
UnflattenRaises(flat, template) == Len(flat) < SizeOf(template, LayerOrder)

_unflatten(flat, template) ==
    [k \in DOMAIN template |->
        SubSeq(flat, OffsetOf(template, LayerOrder, k) + 1,
                     OffsetOf(template, LayerOrder, k) + Len(template[k]))]

----------------------------------------------------------------------------
(* detector.py: outlier detection.                                         *)
(* Norms are square roots of integers; every comparison of the code is     *)
(* decided exactly on the squares.  The guard 1e-9 in the norm ratio and   *)
(* the guard 1e-12 in _cosine_sim separate zero from non-zero integer      *)
(* vectors and change no other comparison of integer vectors.              *)

\* the median taken as the upper of the two middle values of an even count
MedianTwice_upper_middle(sorted) ==
    LET n == Len(sorted) IN 2 * sorted[n \div 2 + 1]

\* twice np.median of a sorted sequence of integers
MedianTwice(sorted) ==
    LET n == Len(sorted) IN
    IF n % 2 = 1 THEN 2 * sorted[(n + 1) \div 2]
    ELSE sorted[n \div 2] + sorted[n \div 2 + 1]

\* the norm test with the median taken as the lower of the two middle norms of
\* an even count
NormRatioExceeded_lower_median(myNorm2, sortedNorms2) ==
    LET n == Len(sortedNorms2)
        R2 == NORM_RATIO * NORM_RATIO
    IN  myNorm2 > R2 * sortedNorms2[(n + 1) \div 2]

\* my_norm / (median_norm + 1e-9) > NORM_RATIO, on squared norms:
\* sortedNorms2 are the batch's squared norms in ascending order
NormRatioExceeded(myNorm2, sortedNorms2) ==
    LET n == Len(sortedNorms2)
        R2 == NORM_RATIO * NORM_RATIO
    IN IF n % 2 = 1
       THEN myNorm2 > R2 * sortedNorms2[(n + 1) \div 2]
       ELSE LET p == sortedNorms2[n \div 2]
                q == sortedNorms2[n \div 2 + 1]
                L == 4 * myNorm2 - R2 * (p + q)
            IN  L > 0 /\ L * L > 4 * R2 * R2 * p * q

\* _cosine_sim that takes a zero vector as opposed to everything (-1.0)
CosineBelowThreshold_zero_is_opposite(a, b) ==
    LET na2 == Norm2(a)
        nb2 == Norm2(b)
        d == Dot(a, b)
    IN  \/ na2 = 0
        \/ nb2 = 0
        \/ /\ d < 0
           /\ COS_THRESHOLD_DEN * COS_THRESHOLD_DEN * d * d
                > COS_THRESHOLD_NUM * COS_THRESHOLD_NUM * na2 * nb2

\* _cosine_sim(a, b) < COS_THRESHOLD for a negative threshold; b may be given
\* scaled by a positive factor.  A zero vector has similarity 1.0.
CosineBelowThreshold(a, b) ==
    LET na2 == Norm2(a)
        nb2 == Norm2(b)
        d == Dot(a, b)
    IN  /\ na2 # 0
        /\ nb2 # 0
        /\ d < 0
        /\ COS_THRESHOLD_DEN * COS_THRESHOLD_DEN * d * d
             > COS_THRESHOLD_NUM * COS_THRESHOLD_NUM * na2 * nb2

Deltas(all_updates) == [i \in 1..Len(all_updates) |-> _flatten(all_updates[i].weights)]

\* twice the coordinate-wise median of the stacked batch
MedianDirTwice(deltas) ==
    [j \in 1..Len(deltas[1]) |-> MedianTwice(SortInts(Column(deltas, j)))]

\* the squared norm of a vector; of a vector that holds a nan, nan; of one that holds
\* an infinity and no nan, inf
Norm2Of(v) ==
    IF HasValue(v, NaNCode) THEN NaNCode
    ELSE IF HasCode(v) THEN InfCode
    ELSE Norm2(v)

\* the norm check.  A nan among the norms makes the median and the ratio nan, and
\* the comparison false; so does an infinite median (the ratio is 0 or nan); over a
\* finite median an infinite norm gives the ratio inf.
NormCheck(update, all_updates) ==
    LET deltas == Deltas(all_updates)
        norms2 == SortInts([i \in 1..Len(deltas) |-> Norm2Of(deltas[i])])
        my2 == Norm2Of(_flatten(update.weights))
    IN  IF \A i \in 1..Len(deltas): ~HasCode(deltas[i])
        THEN NormRatioExceeded(Norm2(_flatten(update.weights)),
                               SortInts([i \in 1..Len(deltas) |-> Norm2(deltas[i])]))
        ELSE IF my2 = NaNCode \/ HasValue(norms2, NaNCode) \/ HasCode(Middle(norms2)) THEN FALSE
        ELSE IF my2 = InfCode THEN TRUE
        ELSE NormRatioExceeded(my2, norms2)

\* some coordinate of the median direction is nan or infinite
MedianDirNonFinite(deltas) ==
    /\ \E i \in 1..Len(deltas): HasCode(deltas[i])
    /\ \E j \in 1..Len(deltas[1]):
          \/ HasValue(Column(deltas, j), NaNCode)
          \/ HasCode(Middle(SortInts(Column(deltas, j))))

\* the direction check.  With a nan or an infinity in the update or in the median
\* direction _cosine_sim returns nan, or 1.0 for a zero vector, and nothing is flagged.
CosineCheck(update, all_updates) ==
    IF \A i \in 1..Len(all_updates): ~HasCode(_flatten(all_updates[i].weights))
    THEN CosineBelowThreshold(_flatten(update.weights), MedianDirTwice(Deltas(all_updates)))
    ELSE IF HasCode(_flatten(update.weights)) \/ MedianDirNonFinite(Deltas(all_updates)) THEN FALSE
    ELSE CosineBelowThreshold(_flatten(update.weights), MedianDirTwice(Deltas(all_updates)))

\* is_outlier raises at np.stack when it gets past the norm check on a batch whose
\* flattened lengths differ
IsOutlierRaises(update, all_updates) ==
    /\ Len(all_updates) >= 2
    /\ ~NormCheck(update, all_updates)
    /\ ~Stackable(Deltas(all_updates))

\* is_outlier whose early return answers True
is_outlier_flags_small_batches(update, all_updates) ==
    IF Len(all_updates) < 2 THEN [flagged |-> TRUE, reason |-> "clean"]
    ELSE IF NormCheck(update, all_updates)
         THEN [flagged |-> TRUE, reason |-> "norm_ratio"]
    ELSE IF CosineCheck(update, all_updates)
         THEN [flagged |-> TRUE, reason |-> "cosine_sim"]
    ELSE [flagged |-> FALSE, reason |-> "clean"]

is_outlier(update, all_updates) ==
    IF Len(all_updates) < 2 THEN [flagged |-> FALSE, reason |-> "clean"]
    ELSE IF NormCheck(update, all_updates)
         THEN [flagged |-> TRUE, reason |-> "norm_ratio"]
    ELSE IF CosineCheck(update, all_updates)
         THEN [flagged |-> TRUE, reason |-> "cosine_sim"]
    ELSE [flagged |-> FALSE, reason |-> "clean"]

FilterRaises(batch) == \E i \in 1..Len(batch): IsOutlierRaises(batch[i], batch)

\* the batch after filter_outliers: flagged updates carry _flagged and _flag_reason
MarkOutliers(batch) ==
    [i \in 1..Len(batch) |->
        LET r == is_outlier(batch[i], batch) IN
        IF r.flagged
        THEN [batch[i] EXCEPT !._flagged = TRUE, !._flag_reason = r.reason]
        ELSE batch[i]]

\* the list filter_outliers returns
filter_outliers(batch) ==
    SelectSeq(batch, LAMBDA u: ~is_outlier(u, batch).flagged)

\* the list the loop of filter_outliers hands to is_outlier after flags were set on
\* some members, if flagged members were left out of it
ComparisonBatch_without_flagged(marked) == SelectSeq(marked, LAMBDA u: ~u._flagged)

\* the list the loop of filter_outliers hands to is_outlier at line 90: `updates`,
\* whose members carry the flags the loop has set so far
ComparisonBatch(marked) == marked

\* the for-loop of filter_outliers from member i on.  marked is the list `updates`
\* with the flags set so far; the result holds the list at the end of the loop, the
\* clean list, and whether is_outlier raised.
RECURSIVE FilterLoop(_, _)
FilterLoop(marked, i) ==
    IF i > Len(marked) THEN [raised |-> FALSE, updates |-> marked, clean |-> <<>>]
    ELSE IF IsOutlierRaises(marked[i], ComparisonBatch(marked))
    THEN [raised |-> TRUE, updates |-> marked, clean |-> <<>>]
    ELSE LET r == is_outlier(marked[i], ComparisonBatch(marked))
             next == IF r.flagged
                     THEN [marked EXCEPT ![i]._flagged = TRUE, ![i]._flag_reason = r.reason]
                     ELSE marked
             rest == FilterLoop(next, i + 1)
         IN  [raised |-> rest.raised,
              updates |-> rest.updates,
              clean |-> IF r.flagged THEN rest.clean ELSE <<marked[i]>> \o rest.clean]

----------------------------------------------------------------------------
(* detector.py: aggregation *)

\* k without the lower limit 1
TrimCount_floor_only(n) == (n * TRIM_RATIO_NUM) \div TRIM_RATIO_DEN

\* k = max(1, int(len(updates) * TRIM_RATIO))
TrimCount(n) == Max(1, (n * TRIM_RATIO_NUM) \div TRIM_RATIO_DEN)

\* the float sum of values of which at least one is no number: nan if a nan or both
\* infinities are among them, else the infinity that is among them
NonFiniteSum(s) ==
    IF HasValue(s, NaNCode) \/ (HasValue(s, InfCode) /\ HasValue(s, NegInfCode)) THEN NaN
    ELSE IF HasValue(s, InfCode) THEN PosInf
    ELSE NegInf

\* np.mean of a non-empty sequence of values, as a rational
MeanOf(s) == IF HasCode(s) THEN NonFiniteSum(s) ELSE Rat(SumSeq(s), Len(s))

\* np.median of a column: nan if a nan is in it, else the mean of the middle values
MedianOf(column) ==
    IF HasValue(column, NaNCode) THEN NaN
    ELSE IF HasCode(Middle(SortInts(column))) THEN MeanOf(Middle(SortInts(column)))
    ELSE Rat(MedianTwice(SortInts(column)), 2)

\* one coordinate of _trimmed_mean: sort, drop k from each tail, average; the
\* whole column when the slice is empty
TrimmedMeanOf(column) ==
    LET n == Len(column)
        k == TrimCount(n)
        sorted == SortInts(column)
        trimmed == SubSeq(sorted, k + 1, n - k)
    IN  IF trimmed = <<>> THEN MeanOf(sorted) ELSE MeanOf(trimmed)

AggregateRaises(batch, template) ==
    \/ ~Stackable(Deltas(batch))
    \/ UnflattenRaises(_flatten(batch[1].weights), template)

_trimmed_mean(batch, template) ==
    LET stacked == Deltas(batch)
        result_flat == [j \in 1..Len(stacked[1]) |-> TrimmedMeanOf(Column(stacked, j))]
    IN  _unflatten(result_flat, template)

\* np.median of every column of the stacked batch
_coordinate_median(batch, template) ==
    LET stacked == Deltas(batch)
        result_flat == [j \in 1..Len(stacked[1]) |-> MedianOf(Column(stacked, j))]
    IN  _unflatten(result_flat, template)

\* u.get('n_samples', 1)
NSamples(u) == IF "n_samples" \in DOMAIN u THEN u.n_samples ELSE 1

TotalSamples(batch) == SumSeq([i \in 1..Len(batch) |-> NSamples(batch[i])])

\* the sample counts taken as equal
FedavgWeight_equal(batch, i) == <<1, Len(batch)>>

\* weights_arr[i] = n_samples / total_samples, as numerator and denominator
FedavgWeight(batch, i) == <<NSamples(batch[i]), TotalSamples(batch)>>

\* np.sum(stacked * weights_arr[:, np.newaxis], axis=0) for sample counts >= 1
_fedavg(batch, template) ==
    LET stacked == Deltas(batch)
        n == Len(batch)
        den == FedavgWeight(batch, 1)[2]
        result_flat == [j \in 1..Len(stacked[1]) |->
                           IF HasCode(Column(stacked, j)) THEN NonFiniteSum(Column(stacked, j))
                           ELSE Rat(SumSeq([i \in 1..n |->
                                        stacked[i][j] * FedavgWeight(batch, i)[1]]), den)]
    IN  _unflatten(result_flat, template)

AGG_ALGO == "trimmed_mean"

\* posinf = 1e6, neginf = -1e6
POSINF == 1000000

\* nan_to_num that replaces nothing
nan_to_num_keeps_all(x) == x

\* np.nan_to_num(arr, nan=0.0, posinf=1e6, neginf=-1e6), one value
nan_to_num(x) ==
    IF IsNaN(x) THEN <<0, 1>>
    ELSE IF x = PosInf THEN <<POSINF, 1>>
    ELSE IF x = NegInf THEN <<-POSINF, 1>>
    ELSE x

\* the dispatch of aggregate: "median", "fedavg", else the trimmed mean
AlgoResult(batch, template, algo) ==
    IF algo = "median" THEN _coordinate_median(batch, template)
    ELSE IF algo = "fedavg" THEN _fedavg(batch, template)
    ELSE _trimmed_mean(batch, template)

\* nan_to_num of one layer
SanitizeLayer(arr) == [j \in 1..Len(arr) |-> nan_to_num(arr[j])]

\* aggregate(updates, template, algo): the algorithm's result, sanitized layer by layer
aggregate_with(batch, template, algo) ==
    LET result == AlgoResult(batch, template, algo)
    IN  [k \in DOMAIN result |-> SanitizeLayer(result[k])]

\* aggregate(updates, template): algo = AGG_ALGO
aggregate(batch, template) == aggregate_with(batch, template, AGG_ALGO)

----------------------------------------------------------------------------
(* Inputs of the queue-based variant *)

\* the payload each client sends.  a, b and c point away from one another: each has
\* cosine -1/3 with either of the others and with the coordinate-wise median of the
\* three.  "s" sends a layer that is one value short.
ClientWeights ==
    [a |-> [W |-> <<1, -5>>, b |-> <<1>>],
     b |-> [W |-> <<1, 1>>, b |-> <<-5>>],
     c |-> [W |-> <<-5, 1>>, b |-> <<1>>],
     s |-> [W |-> <<1>>, b |-> <<1>>]]

Clients == DOMAIN ClientWeights

\* np.random.randn(...) * 0.01: the values a fresh W may take
RandomW == {<<(<<0, 1>>), (<<0, 1>>)>>, <<(<<1, 100>>), (<<-1, 100>>)>>}

\* a weights.json a previous run left behind
OldSnapshot == [round_id |-> 1, weights |-> [W |-> <<(<<1, 2>>), (<<0, 1>>)>>, b |-> <<(<<1, 1>>)>>]]

NoFile == [status |-> "none", content |-> <<>>]

CorruptFile == [status |-> "corrupt", content |-> <<>>]

FileWith(snapshot) == [status |-> "ok", content |-> <<snapshot>>]

----------------------------------------------------------------------------
(* model_store.py *)

_default_weights(w) == [W |-> w, b |-> <<(<<0, 1>>)>>]

\* _load_from_disk: an unreadable file falls back to version 0 and fresh weights
_load_from_disk(file, w) ==
    IF file.status = "ok"
    THEN file.content[1]
    ELSE [round_id |-> 0, weights |-> _default_weights(w)]

\* _save_to_disk: the dump succeeds, or open() fails and the file stays, or the
\* write is cut short; none of these raises
_save_to_disk(round_id, weights) ==
    disk' \in {FileWith([round_id |-> round_id, weights |-> weights]), disk, CorruptFile}

\* the result of get_weights(): the copy holds the values of _weights
get_weights == [round_id |-> _round_id, weights |-> _weights]

get_round_id == _round_id

\* set_weights without the increment of _round_id
set_weights_body_no_increment(nw) ==
    /\ _weights' = nw
    /\ _round_id' = _round_id
    /\ _save_to_disk(_round_id', _weights')

\* set_weights without "global _weights": the assignment binds a local
set_weights_body_local_weights(nw) ==
    /\ _weights' = _weights
    /\ _round_id' = _round_id + 1
    /\ _save_to_disk(_round_id', nw)

\* set_weights inside the lock: no await between the statements
set_weights_body(nw) ==
    /\ _weights' = nw
    /\ _round_id' = _round_id + 1
    /\ _save_to_disk(_round_id', _weights')

----------------------------------------------------------------------------
(* Ingestion of the queue-based variant: the staleness check, then the put *)
(* on update_queue.  An update's id is the number of its submission.        *)

STALENESS_WINDOW == 3

UpdateOf(c) ==
    [id |-> nSubmitted + 1, client_id |-> c, weights |-> ClientWeights[c],
     _flagged |-> FALSE, _flag_reason |-> ""]

QueueFrame ==
    /\ UNCHANGED <<engineVars, probe>>
    /\ UNCHANGED <<storeVars, wpc, updates, clean, new_weights, new_round_id, _stats,
                   roundHistory, initRound, nCompleted, lastReturned, lastPublished,
                   nAllFlagged, nAggFailed, nAggOk, batchLog>>

\* Submit without the staleness check
Submit_without_staleness_check(c, r) ==
    /\ nSubmitted < MaxUpdates
    /\ nSubmitted' = nSubmitted + 1
    /\ Len(update_queue) < MaxQueue
    /\ update_queue' = Append(update_queue, UpdateOf(c))
    /\ admission' = Append(admission, [age |-> get_round_id - r, status |-> "queued"])
    /\ QueueFrame

\* client c submits an update trained from round r: a stale-update error when
\* r < current_round - STALENESS_WINDOW, else the update is put on update_queue
Submit(c, r) ==
    /\ nSubmitted < MaxUpdates
    /\ nSubmitted' = nSubmitted + 1
    /\ IF r < get_round_id - STALENESS_WINDOW
       THEN /\ admission' = Append(admission, [age |-> get_round_id - r, status |-> "stale"])
            /\ UNCHANGED update_queue
       ELSE /\ Len(update_queue) < MaxQueue
            /\ update_queue' = Append(update_queue, UpdateOf(c))
            /\ admission' = Append(admission, [age |-> get_round_id - r, status |-> "queued"])
    /\ QueueFrame

\* a submission trained from the current round
Enqueue(c) == Submit(c, get_round_id)

----------------------------------------------------------------------------
(* aggregator.py: aggregation_worker.                                      *)
(* wpc: "collect"     in the drain loop, suspended in wait_for(queue.get)  *)
(*      "sleep"       in asyncio.sleep(1) after an empty window            *)
(*      "filter"      the window has closed with a non-empty batch         *)
(*      "get_weights" at await model_store.get_weights()                   *)
(*      "set_weights" at async with _lock                                  *)
(*      "locked"      holding _lock                                        *)
(*      "save_round"  at await _save_round_to_db                           *)
(*      "client_stats" at await _update_client_stats_in_db                 *)
(*      "crashed"     the task ended with an exception                     *)

NoLocals ==
    /\ updates' = <<>>
    /\ clean' = <<>>
    /\ new_weights' = <<>>
    /\ new_round_id' = <<>>

Flagged(batch) == SelectSeq(batch, LAMBDA u: u._flagged)

flagged_info(batch) ==
    [i \in 1..Len(Flagged(batch)) |->
        [client_id |-> Flagged(batch)[i].client_id, reason |-> Flagged(batch)[i]._flag_reason]]

\* update_queue.get() returns an update: it joins the batch; the drain loop ends
\* when the batch holds N_MIN_UPDATES
DequeueStep ==
    /\ wpc = "collect"
    /\ Len(updates) < N_MIN_UPDATES
    /\ update_queue # <<>>
    /\ updates' = Append(updates, Head(update_queue))
    /\ update_queue' = Tail(update_queue)
    /\ _stats' = [_stats EXCEPT !.total_updates_received = @ + 1]
    /\ batchLog' = [batchLog EXCEPT ![Head(update_queue).id] = @ + 1]
    /\ wpc' = IF Len(updates') < N_MIN_UPDATES THEN "collect" ELSE "filter"
    /\ UNCHANGED engineVars
    /\ UNCHANGED <<storeVars, clean, new_weights, new_round_id, roundHistory, nSubmitted, admission,
                   initRound, nCompleted, lastReturned, lastPublished, nAllFlagged, nAggFailed, nAggOk>>

WorkerDequeue == DequeueStep /\ UNCHANGED probe

\* the deadline passes (remaining <= 0, or wait_for raises TimeoutError)
TimeoutStep ==
    /\ wpc = "collect"
    /\ wpc' = IF updates = <<>> THEN "sleep" ELSE "filter"
    /\ UNCHANGED engineVars
    /\ UNCHANGED <<storeVars, update_queue, updates, clean, new_weights, new_round_id,
                   _stats, roundHistory, queueHist>>

WorkerTimeout == TimeoutStep /\ UNCHANGED probe

\* asyncio.sleep(1) returns: a fresh window
SleepStep ==
    /\ wpc = "sleep"
    /\ wpc' = "collect"
    /\ UNCHANGED engineVars
    /\ UNCHANGED <<storeVars, update_queue, updates, clean, new_weights, new_round_id,
                   _stats, roundHistory, queueHist>>

WorkerSleep == SleepStep /\ UNCHANGED probe

\* filter_outliers and the all-flagged test
FilterStep ==
    /\ wpc = "filter"
    /\ IF FilterRaises(updates)
       THEN /\ wpc' = "crashed"
            /\ UNCHANGED <<updates, clean, new_weights, new_round_id, _stats, nAllFlagged>>
       ELSE IF filter_outliers(updates) = <<>>
       THEN /\ _stats' = [_stats EXCEPT !.total_flagged = @ + Len(Flagged(MarkOutliers(updates)))]
            /\ nAllFlagged' = nAllFlagged + 1
            /\ wpc' = "collect"
            /\ NoLocals
       ELSE /\ updates' = MarkOutliers(updates)
            /\ clean' = filter_outliers(updates)
            /\ wpc' = "get_weights"
            /\ UNCHANGED <<new_weights, new_round_id, _stats, nAllFlagged>>
    /\ UNCHANGED engineVars
    /\ UNCHANGED <<storeVars, update_queue, roundHistory, nSubmitted, admission, initRound,
                   nCompleted, lastReturned, lastPublished, nAggFailed, nAggOk, batchLog>>

WorkerFilter == FilterStep /\ UNCHANGED probe

\* AggregateStep with a handler that puts the batch back on the queue
AggregateStep_requeues ==
    /\ wpc = "get_weights"
    /\ IF AggregateRaises(clean, get_weights.weights)
       THEN /\ nAggFailed' = nAggFailed + 1
            /\ update_queue' = update_queue \o updates
            /\ wpc' = "collect"
            /\ NoLocals
            /\ UNCHANGED nAggOk
       ELSE /\ new_weights' = <<aggregate(clean, get_weights.weights)>>
            /\ nAggOk' = nAggOk + 1
            /\ wpc' = "set_weights"
            /\ UNCHANGED <<updates, clean, new_round_id, nAggFailed, update_queue>>
    /\ UNCHANGED engineVars
    /\ UNCHANGED <<storeVars, _stats, roundHistory, nSubmitted, admission, initRound,
                   nCompleted, lastReturned, lastPublished, nAllFlagged, batchLog>>

\* get_weights() and aggregate(clean, current_weights); an exception abandons the round
AggregateStep ==
    /\ wpc = "get_weights"
    /\ IF AggregateRaises(clean, get_weights.weights)
       THEN /\ nAggFailed' = nAggFailed + 1
            /\ wpc' = "collect"
            /\ NoLocals
            /\ UNCHANGED nAggOk
       ELSE /\ new_weights' = <<aggregate(clean, get_weights.weights)>>
            /\ nAggOk' = nAggOk + 1
            /\ wpc' = "set_weights"
            /\ UNCHANGED <<updates, clean, new_round_id, nAggFailed>>
    /\ UNCHANGED engineVars
    /\ UNCHANGED <<storeVars, update_queue, _stats, roundHistory, nSubmitted, admission, initRound,
                   nCompleted, lastReturned, lastPublished, nAllFlagged, batchLog>>

\* WorkerAggregate with a handler that keeps the current weights and goes on to commit
WorkerAggregate_commits_on_failure ==
    /\ wpc = "get_weights"
    /\ IF AggregateRaises(clean, get_weights.weights)
       THEN /\ nAggFailed' = nAggFailed + 1
            /\ new_weights' = <<get_weights.weights>>
            /\ wpc' = "set_weights"
            /\ UNCHANGED <<updates, clean, new_round_id, nAggOk>>
       ELSE /\ new_weights' = <<aggregate(clean, get_weights.weights)>>
            /\ nAggOk' = nAggOk + 1
            /\ wpc' = "set_weights"
            /\ UNCHANGED <<updates, clean, new_round_id, nAggFailed>>
    /\ UNCHANGED <<engineVars, probe>>
    /\ UNCHANGED <<storeVars, update_queue, _stats, roundHistory, nSubmitted, admission, initRound,
                   nCompleted, lastReturned, lastPublished, nAllFlagged, batchLog>>

WorkerAggregate == AggregateStep /\ UNCHANGED probe

\* set_weights: async with _lock
WorkerLock ==
    /\ wpc = "set_weights"
    /\ _lock = "free"
    /\ _lock' = "worker"
    /\ wpc' = "locked"
    /\ UNCHANGED <<engineVars, probe>>
    /\ UNCHANGED <<_round_id, _weights, disk, update_queue, updates, clean, new_weights,
                   new_round_id, _stats, roundHistory, queueHist>>

\* set_weights: the body, the release of the lock and the return
CommitStep ==
    /\ wpc = "locked"
    /\ set_weights_body(new_weights[1])
    /\ _lock' = "free"
    /\ new_round_id' = <<_round_id'>>
    /\ nCompleted' = nCompleted + 1
    /\ lastReturned' = new_round_id'
    /\ lastPublished' = [round_id |-> initRound + nCompleted', weights |-> new_weights[1]]
    /\ wpc' = "save_round"
    /\ UNCHANGED engineVars
    /\ UNCHANGED <<update_queue, updates, clean, new_weights, _stats, roundHistory,
                   nSubmitted, admission, initRound, nAllFlagged, nAggFailed, nAggOk, batchLog>>

WorkerCommit == CommitStep /\ UNCHANGED probe

\* _save_round_to_db that tries again after a failed write
SaveRoundStep_retries ==
    /\ wpc = "save_round"
    /\ \/ /\ roundHistory' = Append(roundHistory,
                    [round_id |-> new_round_id[1], n_updates |-> Len(clean),
                     n_flagged |-> Len(Flagged(updates)),
                     flagged_info |-> flagged_info(updates)])
          /\ wpc' = "client_stats"
       \/ /\ roundHistory' = roundHistory
          /\ wpc' \in {"client_stats", "save_round"}
    /\ UNCHANGED engineVars
    /\ UNCHANGED <<storeVars, update_queue, updates, clean, new_weights, new_round_id,
                   _stats, queueHist>>

\* _save_round_to_db: the row is written, or the write fails and is swallowed
SaveRoundStep ==
    /\ wpc = "save_round"
    /\ roundHistory' \in
         {Append(roundHistory, [round_id |-> new_round_id[1], n_updates |-> Len(clean),
                                n_flagged |-> Len(Flagged(updates)),
                                flagged_info |-> flagged_info(updates)]),
          roundHistory}
    /\ wpc' = "client_stats"
    /\ UNCHANGED engineVars
    /\ UNCHANGED <<storeVars, update_queue, updates, clean, new_weights, new_round_id,
                   _stats, queueHist>>

WorkerSaveRound == SaveRoundStep /\ UNCHANGED probe

\* _update_client_stats_in_db returns (written or swallowed), then the live stats
ClientStatsStep ==
    /\ wpc = "client_stats"
    /\ _stats' = [_stats EXCEPT !.last_aggregation = "set",
                                !.total_rounds_aggregated = @ + 1,
                                !.total_flagged = @ + Len(Flagged(updates))]
    /\ wpc' = "collect"
    /\ NoLocals
    /\ UNCHANGED engineVars
    /\ UNCHANGED <<storeVars, update_queue, roundHistory, queueHist>>

WorkerClientStats == ClientStatsStep /\ UNCHANGED probe

----------------------------------------------------------------------------
(* Rational arithmetic of the federated engine *)

RInt(n) == <<n, 1>>

RAdd(x, y) == Rat(x[1] * y[2] + y[1] * x[2], x[2] * y[2])

RSub(x, y) == Rat(x[1] * y[2] - y[1] * x[2], x[2] * y[2])

RMul(x, y) == Rat(x[1] * y[1], x[2] * y[2])

RLess(x, y) == x[1] * y[2] < y[1] * x[2]

RECURSIVE RSum(_)
RSum(s) == IF s = <<>> THEN RInt(0) ELSE RAdd(Head(s), RSum(Tail(s)))

\* x > m for a rational x and an integer m >= 0, without multiplying m by x's denominator
RExceedsInt(x, m) ==
    \/ x[1] \div x[2] > m
    \/ x[1] \div x[2] = m /\ x[1] % x[2] # 0

RMean(s) == LET t == RSum(s) IN Rat(t[1], t[2] * Len(s))

\* x - y in float32 for a finite y: nan and the infinities stay what they are
FSub(x, y) == IF IsFinite(x) THEN RSub(x, y) ELSE x

\* all values of a weight map: the layers one after another
RECURSIVE FlatOf(_, _)
FlatOf(w, keys) ==
    IF keys = {} THEN <<>>
    ELSE LET k == CHOOSE x \in keys: TRUE IN w[k] \o FlatOf(w, keys \ {k})

----------------------------------------------------------------------------
(* Program constants of the federated engine *)

BUFFER_SIZE == 5
NORM_THRESHOLD == 10000
COSINE_THRESHOLD == 0
\* trim_ratio = 0.1 = 1 / ENGINE_TRIM_DEN in the call trimmed_mean(_update_buffer, trim_ratio=0.1)
ENGINE_TRIM_DEN == 10

----------------------------------------------------------------------------
(* federated_engine.py, trust_engine.py, aggregation.py: the pure functions. *)
(* A weight map is a function from layer names to sequences of rationals.   *)

ZerosLike(v) == [j \in 1..Len(v) |-> RInt(0)]

\* _compute_delta that leaves out the layers the client does not send
_compute_delta_skips_missing(client_weights, base_weights) ==
    [k \in DOMAIN base_weights \cap DOMAIN client_weights |->
        IF Len(client_weights[k]) = Len(base_weights[k])
        THEN [j \in 1..Len(base_weights[k]) |-> FSub(client_weights[k][j], base_weights[k][j])]
        ELSE ZerosLike(base_weights[k])]

\* a layer the client does not send, or sends with another shape, gives a zero delta
_compute_delta(client_weights, base_weights) ==
    [k \in DOMAIN base_weights |->
        IF k \in DOMAIN client_weights /\ Len(client_weights[k]) = Len(base_weights[k])
        THEN [j \in 1..Len(base_weights[k]) |-> FSub(client_weights[k][j], base_weights[k][j])]
        ELSE ZerosLike(base_weights[k])]

_apply_delta(global_weights, agg_delta) ==
    [k \in DOMAIN global_weights |->
        IF k \in DOMAIN agg_delta
        THEN [j \in 1..Len(global_weights[k]) |-> RAdd(global_weights[k][j], agg_delta[k][j])]
        ELSE global_weights[k]]

\* the square of calculate_update_norm
UpdateNorm2(update_weights) ==
    LET flat == FlatOf(update_weights, DOMAIN update_weights)
    IN  RSum([j \in 1..Len(flat) |-> RMul(flat[j], flat[j])])

\* norm > threshold at line 12.  The norm of a map that holds a nan is nan, and
\* nan > threshold is False; otherwise an infinity makes the norm inf.  For finite
\* values a single value above the threshold decides it; otherwise the squares are
\* compared.
NormExceeds(update_weights, threshold) ==
    LET flat == FlatOf(update_weights, DOMAIN update_weights)
    IN  IF \E j \in 1..Len(flat): IsNaN(flat[j]) THEN FALSE
        ELSE IF \E j \in 1..Len(flat): IsInf(flat[j]) THEN TRUE
        ELSE \/ \E j \in 1..Len(flat):
                   RExceedsInt(<<Abs(flat[j][1]), flat[j][2]>>, threshold)
             \/ RExceedsInt(UpdateNorm2(update_weights), threshold * threshold)

\* the loop of lines 14-17: np.isnan or np.isinf in some layer
HasNanOrInf(update_weights) ==
    \E k \in DOMAIN update_weights:
        \E j \in 1..Len(update_weights[k]): ~IsFinite(update_weights[k][j])

\* validate_update without the norm test of lines 11-13
validate_update_no_norm(update_weights, threshold) ==
    ~HasNanOrInf(update_weights)

validate_update(update_weights, threshold) ==
    ~ \/ NormExceeds(update_weights, threshold)
      \/ HasNanOrInf(update_weights)

\* cosine_similarity_check with threshold 0.0: sim < 0 iff the dot product is
\* negative; an empty reference, no common layer or a zero vector pass
cosine_similarity_check(delta, reference) ==
    IF reference = <<>> THEN TRUE
    ELSE LET keys == DOMAIN delta \cap DOMAIN reference[1]
             flat_delta == FlatOf(delta, keys)
             flat_ref == FlatOf(reference[1], keys)
             dot == RSum([j \in 1..Len(flat_delta) |-> RMul(flat_delta[j], flat_ref[j])])
         IN  \/ keys = {}
             \/ \A j \in 1..Len(flat_delta): flat_delta[j][1] = 0
             \/ \A j \in 1..Len(flat_ref): flat_ref[j][1] = 0
             \/ ~RLess(dot, RInt(COSINE_THRESHOLD))

\* scale_delta with scale = 1.0
scale_delta_unscaled(delta, staleness) == delta

\* scale = 1.0 / (1.0 + staleness) at line 112, scaled_delta at line 142
scale_delta(delta, staleness) ==
    [k \in DOMAIN delta |->
        [j \in 1..Len(delta[k]) |-> RMul(delta[k][j], <<1, 1 + staleness>>)]]

SortRats(s) == SortSeq(s, RLess)

\* aggregation.py trimmed_mean: per layer and coordinate, sort, drop int(n * ratio)
\* values from each end when something is left, and average
trimmed_mean(deltas) ==
    LET n == Len(deltas)
        trim_count == n \div ENGINE_TRIM_DEN
    IN  [k \in DOMAIN deltas[1] |->
            [j \in 1..Len(deltas[1][k]) |->
                LET sorted == SortRats([i \in 1..n |-> deltas[i][k][j]])
                IN  IF n - 2 * trim_count > 0
                    THEN RMean(SubSeq(sorted, trim_count + 1, n - trim_count))
                    ELSE RMean(sorted)]]

\* mean_delta that returns the first delta of the batch
mean_delta_first(deltas) == deltas[1]

\* mean_delta: the mean of the batch's deltas, layer by layer
mean_delta(deltas) ==
    [k \in DOMAIN deltas[1] |->
        [j \in 1..Len(deltas[1][k]) |-> RMean([i \in 1..Len(deltas) |-> deltas[i][k][j]])]]

----------------------------------------------------------------------------
(* The GlobalModel table and the weights_bank directory.                   *)
(* A row is [pk, version, weights_path]; the path weights_bank/unified_v<n>.json *)
(* is written n.  The table is not guarded by the code against two rows of *)
(* one version.                                                            *)

Handlers == {"h1", "h2"}

MaxOf(S) == IF S = {} THEN 0 ELSE CHOOSE x \in S: \A y \in S: y <= x

Versions(table) == {table[i].version : i \in 1..Len(table)}

\* the rows order_by('-version').first() may return: <<>> for None
LatestChoices(table) ==
    IF table = <<>> THEN {<<>>}
    ELSE {<<table[i]>> : i \in {j \in 1..Len(table): table[j].version = MaxOf(Versions(table))}}

\* the rows filter(version=v).first() may return
TargetChoices(table, v) ==
    IF v \notin Versions(table) THEN {<<>>}
    ELSE {<<table[i]>> : i \in {j \in 1..Len(table): table[j].version = v}}

\* order_by('-version')[1] once the row `first` is taken away
PreviousChoices(table, first) ==
    LatestChoices(SelectSeq(table, LAMBDA r: r.pk # first.pk))

RowSet(table) == {table[i] : i \in 1..Len(table)}

\* the version records: every row's number with the weights its file holds
Records(table, bank) ==
    {[version |-> r.version,
      weights |-> IF r.weights_path \in DOMAIN bank THEN <<bank[r.weights_path]>> ELSE <<>>]
        : r \in RowSet(table)}

NextPk(table, log) ==
    1 + MaxOf({table[i].pk : i \in 1..Len(table)} \cup {log[i].pk : i \in 1..Len(log)})

PathOf(version) == version

\* os.path.exists
Exists(path) == path \in DOMAIN weights_bank

\* open(path, 'w') and json.dump, or shutil.copy2: the file holds the new content
WriteFile(path, content) == weights_bank' = (path :> content) @@ weights_bank

\* os.remove
RemoveFile(path) == weights_bank' = [q \in DOMAIN weights_bank \ {path} |-> weights_bank[q]]

\* the weights of a model created by create_unified_model: torch's random initial values
FreshWeights ==
    {[weight |-> <<RInt(0)>>, bias |-> <<RInt(0)>>],
     [weight |-> <<RInt(1)>>, bias |-> <<RInt(-1)>>]}

\* the values _load_global_weights(model_obj) may return
_load_global_weights(model_obj) ==
    IF model_obj # <<>> /\ Exists(model_obj[1].weights_path)
    THEN {weights_bank[model_obj[1].weights_path]}
    ELSE FreshWeights

\* the local variables of a handler that is not running; "before" is no variable
\* of the code: the version records at the moment an administrative request began
Idle ==
    [op |-> "none", gid |-> 0, client_weights |-> <<>>, base_version |-> 0,
     latest |-> <<>>, previous |-> <<>>, target |-> <<>>, target_version |-> 0,
     current_version |-> 0, base_weights |-> <<>>, accepted |-> FALSE,
     new_version |-> 0, new_weights |-> <<>>, overwrote |-> FALSE, before |-> {}]

Event(op, version, weights, top, overwrote, created, pk) ==
    [op |-> op, version |-> version, weights |-> weights, top |-> top,
     overwrote |-> overwrote, created |-> created, pk |-> pk]

\* GlobalModel.objects.create(version, weights_path): the row is inserted; when a
\* row of that version exists the insert may also be refused (IntegrityError)
CreateRow(version, op, weights, overwrote) ==
    \/ /\ GlobalModel' = Append(GlobalModel,
              [pk |-> NextPk(GlobalModel, eventLog), version |-> version,
               weights_path |-> PathOf(version)])
       /\ eventLog' = Append(eventLog,
              Event(op, version, weights, MaxOf(Versions(GlobalModel)), overwrote, TRUE,
                    NextPk(GlobalModel, eventLog)))
    \/ /\ version \in Versions(GlobalModel)
       /\ GlobalModel' = GlobalModel
       /\ eventLog' = Append(eventLog,
              Event(op, version, weights, MaxOf(Versions(GlobalModel)), overwrote, FALSE, 0))

----------------------------------------------------------------------------
(* federated_engine.py: process_update, one action per stretch between awaits. *)
(* hpc: "idle"      no request                                              *)
(*      "loaded"    the query for the latest row has returned, the coroutine *)
(*                  has not yet resumed (lines 103-107)                     *)
(*      "log"       at await ModelUpdateLog.create / update_client_trust    *)
(*      "create"    at await GlobalModel.objects.create                     *)

\* the call, Client.objects.get and the query for the latest row
PuCall(h, payloads, base_versions, limit) ==
    /\ hpc[h] = "idle"
    /\ nCalls < limit
    /\ nCalls' = nCalls + 1
    /\ \E cw \in payloads, bv \in base_versions, l \in LatestChoices(GlobalModel):
          hloc' = [hloc EXCEPT ![h] = [Idle EXCEPT !.op = "submit", !.gid = nCalls + 1,
                      !.client_weights = <<cw>>, !.base_version = bv, !.latest = l]]
    /\ hpc' = [hpc EXCEPT ![h] = "loaded"]
    /\ consumed' = Append(consumed, 0)
    /\ UNCHANGED <<queueVars, probe, engineState, nAdmin, eventLog>>

\* PuValidate with the append of line 144 moved before the two checks
PuValidate_buffers_first(h) ==
    /\ hpc[h] = "loaded"
    /\ hloc[h].op = "submit"
    /\ \E bw \in _load_global_weights(hloc[h].latest):
         LET latest == hloc[h].latest
             current_version == IF latest # <<>> THEN latest[1].version ELSE 0
             staleness == Max(0, current_version - hloc[h].base_version)
             delta == _compute_delta(hloc[h].client_weights[1], bw)
             ok == /\ validate_update(delta, NORM_THRESHOLD)
                   /\ cosine_similarity_check(delta, _reference_direction)
         IN  /\ hloc' = [hloc EXCEPT ![h].current_version = current_version,
                                     ![h].base_weights = <<bw>>,
                                     ![h].accepted = ok]
             /\ IF ok
                THEN /\ _update_buffer' = Append(_update_buffer,
                            [id |-> hloc[h].gid, delta |-> scale_delta(delta, staleness)])
                     /\ _session_accepted' = _session_accepted + 1
                     /\ UNCHANGED _session_rejected
                ELSE /\ _update_buffer' = Append(_update_buffer,
                            [id |-> hloc[h].gid, delta |-> scale_delta(delta, staleness)])
                     /\ _session_rejected' = _session_rejected + 1
                     /\ UNCHANGED _session_accepted
    /\ hpc' = [hpc EXCEPT ![h] = "log"]
    /\ UNCHANGED <<queueVars, probe, GlobalModel, weights_bank, _reference_direction, engineHist>>

\* lines 108-146: load the base weights, compute and check the delta, buffer it
PuValidate(h) ==
    /\ hpc[h] = "loaded"
    /\ hloc[h].op = "submit"
    /\ \E bw \in _load_global_weights(hloc[h].latest):
         LET latest == hloc[h].latest
             current_version == IF latest # <<>> THEN latest[1].version ELSE 0
             staleness == Max(0, current_version - hloc[h].base_version)
             delta == _compute_delta(hloc[h].client_weights[1], bw)
             ok == /\ validate_update(delta, NORM_THRESHOLD)
                   /\ cosine_similarity_check(delta, _reference_direction)
         IN  /\ hloc' = [hloc EXCEPT ![h].current_version = current_version,
                                     ![h].base_weights = <<bw>>,
                                     ![h].accepted = ok]
             /\ IF ok
                THEN /\ _update_buffer' = Append(_update_buffer,
                            [id |-> hloc[h].gid, delta |-> scale_delta(delta, staleness)])
                     /\ _session_accepted' = _session_accepted + 1
                     /\ UNCHANGED _session_rejected
                ELSE /\ _session_rejected' = _session_rejected + 1
                     /\ UNCHANGED <<_update_buffer, _session_accepted>>
    /\ hpc' = [hpc EXCEPT ![h] = "log"]
    /\ UNCHANGED <<queueVars, probe, GlobalModel, weights_bank, _reference_direction, engineHist>>

BufferDeltas == [i \in 1..Len(_update_buffer) |-> _update_buffer[i].delta]

BufferIds == {_update_buffer[i].id : i \in 1..Len(_update_buffer)}

\* AggregateBuffer without _update_buffer.clear()
AggregateBuffer_keeps_buffer(h) ==
    LET agg_weights == _apply_delta(hloc[h].base_weights[1], trimmed_mean(BufferDeltas))
        new_version == hloc[h].current_version + 1
    IN  /\ _reference_direction' = <<mean_delta(BufferDeltas)>>
        /\ _update_buffer' = _update_buffer
        /\ consumed' = [i \in DOMAIN consumed |->
                            IF i \in BufferIds THEN consumed[i] + 1 ELSE consumed[i]]
        /\ WriteFile(PathOf(new_version), agg_weights)
        /\ hloc' = [hloc EXCEPT ![h].new_version = new_version,
                                ![h].new_weights = <<agg_weights>>,
                                ![h].overwrote = Exists(PathOf(new_version))]
        /\ hpc' = [hpc EXCEPT ![h] = "create"]

\* lines 157-167: aggregate the buffer, clear it, write the weights file
AggregateBuffer(h) ==
    LET agg_weights == _apply_delta(hloc[h].base_weights[1], trimmed_mean(BufferDeltas))
        new_version == hloc[h].current_version + 1
    IN  /\ _reference_direction' = <<mean_delta(BufferDeltas)>>
        /\ _update_buffer' = <<>>
        /\ consumed' = [i \in DOMAIN consumed |->
                            IF i \in BufferIds THEN consumed[i] + 1 ELSE consumed[i]]
        /\ WriteFile(PathOf(new_version), agg_weights)
        /\ hloc' = [hloc EXCEPT ![h].new_version = new_version,
                                ![h].new_weights = <<agg_weights>>,
                                ![h].overwrote = Exists(PathOf(new_version))]
        /\ hpc' = [hpc EXCEPT ![h] = "create"]

\* the log row and the trust update are written; a rejected update returns; an
\* accepted one returns "buffered" or aggregates when the buffer is full
PuLogged(h) ==
    /\ hpc[h] = "log"
    /\ IF hloc[h].accepted /\ Len(_update_buffer) >= BUFFER_SIZE
       THEN AggregateBuffer(h)
       ELSE /\ hpc' = [hpc EXCEPT ![h] = "idle"]
            /\ hloc' = [hloc EXCEPT ![h] = Idle]
            /\ UNCHANGED <<_update_buffer, _reference_direction, weights_bank, consumed>>
    /\ UNCHANGED <<queueVars, probe, GlobalModel, _session_accepted, _session_rejected,
                   nCalls, nAdmin, eventLog>>

\* GlobalModel.objects.create and the return of {"status": "accepted", ...}
PuCreate(h) ==
    /\ hpc[h] = "create"
    /\ hloc[h].op = "submit"
    /\ CreateRow(hloc[h].new_version, "aggregation", hloc[h].new_weights, hloc[h].overwrote)
    /\ hpc' = [hpc EXCEPT ![h] = "idle"]
    /\ hloc' = [hloc EXCEPT ![h] = Idle]
    /\ UNCHANGED <<queueVars, probe, weights_bank, _update_buffer, _reference_direction,
                   _session_accepted, _session_rejected, nCalls, nAdmin, consumed>>

----------------------------------------------------------------------------
(* endpoints.py: rollback_to_version.                                      *)
(* hpc: "loaded"  _fetch_target_and_latest has returned                    *)
(*      "create"  at await GlobalModel.objects.create                      *)

RbCall(h, targets, limit) ==
    /\ hpc[h] = "idle"
    /\ nAdmin < limit
    /\ nAdmin' = nAdmin + 1
    /\ \E v \in targets: \E t \in TargetChoices(GlobalModel, v), l \in LatestChoices(GlobalModel):
          hloc' = [hloc EXCEPT ![h] = [Idle EXCEPT !.op = "rollback", !.target_version = v,
                                                   !.target = t, !.latest = l,
                                                   !.before = Records(GlobalModel, weights_bank)]]
    /\ hpc' = [hpc EXCEPT ![h] = "loaded"]
    /\ UNCHANGED <<queueVars, probe, engineState, nCalls, consumed, eventLog>>

\* new_version = (latest.version if latest else 0) + 1
rollback_new_version(h) ==
    (IF hloc[h].latest # <<>> THEN hloc[h].latest[1].version ELSE 0) + 1

\* a rollback that copies the file of the latest version
rollback_source_latest(h) == hloc[h].latest[1].weights_path

\* the file shutil.copy2 reads: target.weights_path
rollback_source(h) == hloc[h].target[1].weights_path

\* shutil.copy2(src, dst)
copy2(src, dst) == WriteFile(dst, weights_bank[src])

\* the 404 answers, or the copy of the target's file and the clearing of the buffer
RbCopy(h) ==
    /\ hpc[h] = "loaded"
    /\ hloc[h].op = "rollback"
    /\ IF hloc[h].target = <<>> \/ ~Exists(hloc[h].target[1].weights_path)
       THEN /\ hpc' = [hpc EXCEPT ![h] = "idle"]
            /\ hloc' = [hloc EXCEPT ![h] = Idle]
            /\ UNCHANGED <<weights_bank, _update_buffer>>
       ELSE LET new_version == rollback_new_version(h)
                content == weights_bank[rollback_source(h)]
            IN  /\ copy2(rollback_source(h), PathOf(new_version))
                /\ _update_buffer' = <<>>
                /\ hloc' = [hloc EXCEPT ![h].new_version = new_version,
                                        ![h].new_weights = <<content>>,
                                        ![h].overwrote = Exists(PathOf(new_version))]
                /\ hpc' = [hpc EXCEPT ![h] = "create"]
    /\ UNCHANGED <<queueVars, probe, GlobalModel, _reference_direction, _session_accepted,
                   _session_rejected, engineHist>>

RbCreate(h) ==
    /\ hpc[h] = "create"
    /\ hloc[h].op = "rollback"
    /\ CreateRow(hloc[h].new_version, "rollback", hloc[h].new_weights, hloc[h].overwrote)
    /\ hpc' = [hpc EXCEPT ![h] = "idle"]
    /\ hloc' = [hloc EXCEPT ![h] = Idle]
    /\ UNCHANGED <<queueVars, probe, weights_bank, _update_buffer, _reference_direction,
                   _session_accepted, _session_rejected, nCalls, nAdmin, consumed>>

----------------------------------------------------------------------------
(* endpoints.py: delete_latest_model.                                      *)
(* hpc: "loaded"  _fetch_top_two has returned                              *)
(*      "delete"  at await latest.delete                                   *)
(*      "clear"   latest.delete has returned                               *)

DlCall(h, limit) ==
    /\ hpc[h] = "idle"
    /\ nAdmin < limit
    /\ nAdmin' = nAdmin + 1
    /\ \E l \in LatestChoices(GlobalModel):
         \E p \in (IF l = <<>> THEN {<<>>} ELSE PreviousChoices(GlobalModel, l[1])):
            hloc' = [hloc EXCEPT ![h] = [Idle EXCEPT !.op = "delete", !.latest = l,
                                                     !.previous = p,
                                                     !.before = Records(GlobalModel, weights_bank)]]
    /\ hpc' = [hpc EXCEPT ![h] = "loaded"]
    /\ UNCHANGED <<queueVars, probe, engineState, nCalls, consumed, eventLog>>

\* the 404 answer, or os.remove of the latest row's file when it exists
DlRemove(h) ==
    /\ hpc[h] = "loaded"
    /\ hloc[h].op = "delete"
    /\ IF hloc[h].latest = <<>>
       THEN /\ hpc' = [hpc EXCEPT ![h] = "idle"]
            /\ hloc' = [hloc EXCEPT ![h] = Idle]
            /\ UNCHANGED weights_bank
       ELSE /\ IF Exists(hloc[h].latest[1].weights_path)
               THEN RemoveFile(hloc[h].latest[1].weights_path)
               ELSE UNCHANGED weights_bank
            /\ hpc' = [hpc EXCEPT ![h] = "delete"]
            /\ UNCHANGED hloc
    /\ UNCHANGED <<queueVars, probe, GlobalModel, _update_buffer, _reference_direction,
                   _session_accepted, _session_rejected, engineHist>>

\* latest.delete(): the row with that primary key goes, if it is still there
DlDelete(h) ==
    /\ hpc[h] = "delete"
    /\ GlobalModel' = SelectSeq(GlobalModel, LAMBDA r: r.pk # hloc[h].latest[1].pk)
    /\ eventLog' = Append(eventLog,
          Event("delete", hloc[h].latest[1].version, <<>>, MaxOf(Versions(GlobalModel)),
                FALSE, FALSE, hloc[h].latest[1].pk))
    /\ hpc' = [hpc EXCEPT ![h] = "clear"]
    /\ UNCHANGED <<queueVars, probe, weights_bank, _update_buffer, _reference_direction,
                   _session_accepted, _session_rejected, hloc, nCalls, nAdmin, consumed>>

\* _update_buffer.clear() and the return
DlClear(h) ==
    /\ hpc[h] = "clear"
    /\ _update_buffer' = <<>>
    /\ hpc' = [hpc EXCEPT ![h] = "idle"]
    /\ hloc' = [hloc EXCEPT ![h] = Idle]
    /\ UNCHANGED <<queueVars, probe, GlobalModel, weights_bank, _reference_direction,
                   _session_accepted, _session_rejected, engineHist>>

----------------------------------------------------------------------------
(* The queue-based variant *)

\* the state of the queue-based variant after the import of model_store and aggregator
InitQueue(files, ws) ==
    /\ disk \in files
    /\ \E w \in ws:
          /\ _round_id = _load_from_disk(disk, w).round_id
          /\ _weights = _load_from_disk(disk, w).weights
    /\ _lock = "free"
    /\ update_queue = <<>>
    /\ wpc = "collect"
    /\ updates = <<>>
    /\ clean = <<>>
    /\ new_weights = <<>>
    /\ new_round_id = <<>>
    /\ _stats = [last_aggregation |-> "none", total_rounds_aggregated |-> 0,
                 total_updates_received |-> 0, total_flagged |-> 0]
    /\ roundHistory = <<>>
    /\ nSubmitted = 0
    /\ admission = <<>>
    /\ initRound = _round_id
    /\ nCompleted = 0
    /\ lastReturned = <<>>
    /\ lastPublished = [round_id |-> _round_id, weights |-> _weights]
    /\ nAllFlagged = 0
    /\ nAggFailed = 0
    /\ nAggOk = 0
    /\ batchLog = [i \in 1..(MaxUpdates) |-> 0]

\* the weights of version 1
InitialWeights == [weight |-> <<RInt(0)>>, bias |-> <<RInt(0)>>]

\* the state of the engine after the import of federated_engine, with one published
\* version in the table and its file in weights_bank
InitEngine ==
    /\ GlobalModel = <<[pk |-> 1, version |-> 1, weights_path |-> PathOf(1)]>>
    /\ weights_bank = (PathOf(1) :> InitialWeights)
    /\ _update_buffer = <<>>
    /\ _reference_direction = <<>>
    /\ _session_accepted = 0
    /\ _session_rejected = 0
    /\ hpc = [h \in Handlers |-> "idle"]
    /\ hloc = [h \in Handlers |-> Idle]
    /\ nCalls = 0
    /\ nAdmin = 0
    /\ consumed = <<>>
    /\ eventLog = <<>>

\* no direct call
NoProbe == [stage |-> "none"]

Init ==
    /\ InitQueue({NoFile, FileWith(OldSnapshot)}, RandomW)
    /\ InitEngine
    /\ probe = NoProbe

Next ==
    \/ \E c \in Clients: Enqueue(c)
    \/ WorkerDequeue
    \/ WorkerTimeout
    \/ WorkerSleep
    \/ WorkerFilter
    \/ WorkerAggregate
    \/ WorkerLock
    \/ WorkerCommit
    \/ WorkerSaveRound
    \/ WorkerClientStats

Spec == Init /\ [][Next]_vars

\* the steps of the aggregation_worker task
WorkerNext ==
    \/ WorkerDequeue
    \/ WorkerTimeout
    \/ WorkerSleep
    \/ WorkerFilter
    \/ WorkerAggregate
    \/ WorkerLock
    \/ WorkerCommit
    \/ WorkerSaveRound
    \/ WorkerClientStats

\* The event loop runs the worker task whenever it can run, and update_queue.get()
\* returns an update at once when the queue holds one: a window that opens on a
\* non-empty queue takes an update before its deadline can pass.
\* number of updates submitted in a fair behaviour
MaxFairUpdates == 2

FairNext ==
    \/ \E c \in Clients: nSubmitted < MaxFairUpdates /\ Enqueue(c)
    \/ WorkerNext

FairSpec == Init /\ [][FairNext]_vars /\ WF_vars(WorkerNext) /\ SF_vars(WorkerDequeue)

\* a weights.json a previous run left behind at round 4
LateSnapshot == [round_id |-> 4, weights |-> OldSnapshot.weights]

\* the rounds the clients say they trained from
RoundIds == {0, 1, 4}

\* the queue-based variant with fresh and stale submissions
StaleInit ==
    /\ InitQueue({FileWith(LateSnapshot)}, {<<RInt(0), RInt(0)>>})
    /\ InitEngine
    /\ probe = NoProbe

StaleNext ==
    \/ \E c \in {"a"}, r \in RoundIds: Submit(c, r)
    \/ WorkerDequeue
    \/ WorkerTimeout
    \/ WorkerSleep
    \/ WorkerFilter
    \/ WorkerAggregate
    \/ WorkerLock
    \/ WorkerCommit
    \/ WorkerSaveRound
    \/ WorkerClientStats

StaleSpec == StaleInit /\ [][StaleNext]_vars

----------------------------------------------------------------------------
(* The buffer-based federated engine *)

\* bounds: the calls of one behaviour
MaxRaceCalls == 10
MaxSeqCalls == 6
MaxSeqAdmin == 2
MaxCalls == 5
MaxAdmin == 1
MaxAdmitCalls == 5
MaxDiscountCalls == 6

\* the payloads the clients send: a step in one direction, the opposite step, a
\* payload far beyond NORM_THRESHOLD
StepPayload == [weight |-> <<RInt(5)>>, bias |-> <<RInt(5)>>]
OppositePayload == [weight |-> <<RInt(-5)>>, bias |-> <<RInt(-5)>>]
HugePayload == [weight |-> <<RInt(20000)>>, bias |-> <<RInt(0)>>]

\* payloads without the layer "bias", with a layer of another shape, with a nan,
\* with an infinity, and with a nan inside a layer of another shape
MissingLayerPayload == [weight |-> <<RInt(5)>>]
MisshapenPayload == [weight |-> <<RInt(5), RInt(5)>>, bias |-> <<RInt(5)>>]
NaNPayload == [weight |-> <<NaN>>, bias |-> <<RInt(5)>>]
InfPayload == [weight |-> <<RInt(5)>>, bias |-> <<NegInf>>]
NaNMisshapenPayload == [weight |-> <<RInt(5)>>, bias |-> <<NaN, RInt(5)>>]

AdmitPayloads ==
    {StepPayload, HugePayload, MissingLayerPayload, MisshapenPayload, NaNPayload,
     InfPayload, NaNMisshapenPayload}

\* a deployment without weights.json and with one published version
EngineInit ==
    /\ InitQueue({NoFile}, {<<RInt(0), RInt(0)>>})
    /\ InitEngine
    /\ probe = NoProbe

\* concurrent process_update calls, nothing else
SubmitNext ==
    \E h \in Handlers:
        \/ PuCall(h, {StepPayload}, {1}, MaxRaceCalls)
        \/ PuValidate(h)
        \/ PuLogged(h)
        \/ PuCreate(h)

SubmitSpec == EngineInit /\ [][SubmitNext]_vars

\* submit, rollback and delete_latest, one request at a time
SeqNext ==
    \E h \in {"h1"}:
        \/ PuCall(h, {StepPayload, OppositePayload, HugePayload}, {1}, MaxSeqCalls)
        \/ PuValidate(h)
        \/ PuLogged(h)
        \/ PuCreate(h)
        \/ RbCall(h, {1, 2, 3}, MaxSeqAdmin)
        \/ RbCopy(h)
        \/ RbCreate(h)
        \/ DlCall(h, MaxSeqAdmin)
        \/ DlRemove(h)
        \/ DlDelete(h)
        \/ DlClear(h)

SeqSpec == EngineInit /\ [][SeqNext]_vars

\* process_update calls with well-formed and malformed payloads, one at a time
AdmitNext ==
    \E h \in {"h1"}:
        \/ PuCall(h, AdmitPayloads, {1}, MaxAdmitCalls)
        \/ PuValidate(h)
        \/ PuLogged(h)
        \/ PuCreate(h)

AdmitSpec == EngineInit /\ [][AdmitNext]_vars

\* the base versions the clients say they trained from
BaseVersions == {0, 1, 2, 3}

\* process_update calls with fresh and stale base versions, one at a time
DiscountNext ==
    \E h \in {"h1"}:
        \/ PuCall(h, {StepPayload}, BaseVersions, MaxDiscountCalls)
        \/ PuValidate(h)
        \/ PuLogged(h)
        \/ PuCreate(h)

DiscountSpec == EngineInit /\ [][DiscountNext]_vars

----------------------------------------------------------------------------
(* Direct calls of is_outlier and filter_outliers on a batch.               *)
(* probe.stage: "input"    the arguments are chosen                         *)
(*              "judged"   is_outlier(batch[member], batch) has returned     *)
(*              "filtered" filter_outliers(batch) has returned              *)

\* bound: the largest batch of a direct call
MaxProbeBatch == 4

\* the weights of the updates of a direct call: unit steps in three directions, a
\* step ten times as long, the zero update, and an update whose W is one value short
ProbeWeights ==
    {[W |-> <<1, 0>>, b |-> <<0>>], [W |-> <<-1, 0>>, b |-> <<0>>],
     [W |-> <<0, 1>>, b |-> <<0>>], [W |-> <<10, 0>>, b |-> <<0>>],
     [W |-> <<0, 0>>, b |-> <<0>>], [W |-> <<1>>, b |-> <<0>>]}

\* the batch whose members hold the weights ws[1], ws[2], ...
BatchOf(ws) ==
    [i \in 1..Len(ws) |->
        [id |-> i, client_id |-> "a", weights |-> ws[i], _flagged |-> FALSE, _flag_reason |-> ""]]

ProbeBatches(maxLen) ==
    UNION {{BatchOf(ws) : ws \in [1..n -> ProbeWeights]} : n \in 0..maxLen}

DetectorInit ==
    /\ InitQueue({NoFile}, {<<RInt(0), RInt(0)>>})
    /\ InitEngine
    /\ probe \in {[stage |-> "input", batch |-> b] : b \in ProbeBatches(MaxProbeBatch)}

\* is_outlier(batch[member], batch)
ProbeIsOutlier ==
    /\ probe.stage = "input"
    /\ \E member \in 1..Len(probe.batch):
          probe' = [stage |-> "judged", batch |-> probe.batch, member |-> member,
                    raised |-> IsOutlierRaises(probe.batch[member], probe.batch),
                    verdict |-> IF IsOutlierRaises(probe.batch[member], probe.batch)
                                THEN [flagged |-> FALSE, reason |-> ""]
                                ELSE is_outlier(probe.batch[member], probe.batch)]
    /\ UNCHANGED <<queueVars, engineVars>>

\* filter_outliers(batch)
ProbeFilter ==
    /\ probe.stage = "input"
    /\ probe' = [stage |-> "filtered", batch |-> probe.batch,
                 out |-> FilterLoop(probe.batch, 1)]
    /\ UNCHANGED <<queueVars, engineVars>>

DetectorNext == ProbeIsOutlier \/ ProbeFilter

DetectorSpec == DetectorInit /\ [][DetectorNext]_vars

----------------------------------------------------------------------------
(* Direct calls of detector._trimmed_mean.                                  *)
(* The batches are all batches of up to MaxTrimBatch updates with one value *)
(* per update, all such batches of updates with two layers, whose second    *)
(* value is ordered differently from the first, and three batches of 10 and *)
(* 11 updates, for which k = 2.                                             *)

MaxTrimBatch == 5

TrimValues == 1..5

ScalarTemplate == [W |-> <<RInt(0)>>]

PairTemplate == [W |-> <<RInt(0)>>, b |-> <<RInt(0)>>]

ScalarWeights(x) == [W |-> <<x>>]

PairWeights(x) == [W |-> <<x>>, b |-> <<(x * x) % 5>>]

LongColumns ==
    {[i \in 1..10 |-> i],
     [i \in 1..10 |-> IF i = 4 THEN 50 ELSE IF i = 7 THEN -50 ELSE 1],
     [i \in 1..11 |-> (i * i) % 7]}

TrimColumns(maxLen) ==
    LongColumns \cup UNION {[1..n -> TrimValues] : n \in 1..maxLen}

TrimInputs(maxLen) ==
    {[stage |-> "trim_input", template |-> ScalarTemplate,
      batch |-> BatchOf([i \in 1..Len(col) |-> ScalarWeights(col[i])])] : col \in TrimColumns(maxLen)}
    \cup
    {[stage |-> "trim_input", template |-> PairTemplate,
      batch |-> BatchOf([i \in 1..Len(col) |-> PairWeights(col[i])])] : col \in TrimColumns(maxLen)}

TrimInit ==
    /\ InitQueue({NoFile}, {<<RInt(0), RInt(0)>>})
    /\ InitEngine
    /\ probe \in TrimInputs(MaxTrimBatch)

\* _trimmed_mean(batch, template)
ProbeTrimmedMean ==
    /\ probe.stage = "trim_input"
    /\ probe' = [stage |-> "trimmed", template |-> probe.template, batch |-> probe.batch,
                 out |-> _trimmed_mean(probe.batch, probe.template)]
    /\ UNCHANGED <<queueVars, engineVars>>

TrimNext == ProbeTrimmedMean

TrimSpec == TrimInit /\ [][TrimNext]_vars

----------------------------------------------------------------------------
(* Direct calls of detector._coordinate_median and detector._fedavg.        *)
(* The median is applied to the batches of TrimInputs; _fedavg to all       *)
(* batches of up to MaxFedBatch updates with one value each and with        *)
(* n_samples absent, 1 or 3.                                                *)

MaxFedBatch == 3

FedValues == {0, 4, -2}

\* <<>> stands for an update without the key n_samples
FedSamples == {<<>>, <<1>>, <<3>>}

FedUpdate(i, x, ns) ==
    IF ns = <<>>
    THEN [id |-> i, client_id |-> "a", weights |-> ScalarWeights(x),
          _flagged |-> FALSE, _flag_reason |-> ""]
    ELSE [id |-> i, client_id |-> "a", weights |-> ScalarWeights(x),
          _flagged |-> FALSE, _flag_reason |-> "", n_samples |-> ns[1]]

FedInputs(maxLen) ==
    UNION {{[stage |-> "fedavg_input", template |-> ScalarTemplate,
             batch |-> [i \in 1..n |-> FedUpdate(i, xs[i], nss[i])]] :
               xs \in [1..n -> FedValues], nss \in [1..n -> FedSamples]} :
           n \in 1..maxLen}

AlgoInit ==
    /\ InitQueue({NoFile}, {<<RInt(0), RInt(0)>>})
    /\ InitEngine
    /\ \/ probe \in TrimInputs(MaxTrimBatch)
       \/ probe \in FedInputs(MaxFedBatch)

\* _coordinate_median(batch, template)
ProbeCoordinateMedian ==
    /\ probe.stage = "trim_input"
    /\ probe' = [stage |-> "median", template |-> probe.template, batch |-> probe.batch,
                 out |-> _coordinate_median(probe.batch, probe.template)]
    /\ UNCHANGED <<queueVars, engineVars>>

\* _fedavg(batch, template)
ProbeFedavg ==
    /\ probe.stage = "fedavg_input"
    /\ probe' = [stage |-> "fedavg", template |-> probe.template, batch |-> probe.batch,
                 out |-> _fedavg(probe.batch, probe.template)]
    /\ UNCHANGED <<queueVars, engineVars>>

AlgoNext == ProbeCoordinateMedian \/ ProbeFedavg

AlgoSpec == AlgoInit /\ [][AlgoNext]_vars

----------------------------------------------------------------------------
(* Values that are no numbers.  One run is one of three:                    *)
(*   direct calls of detector.aggregate with each algorithm on batches that *)
(*     hold nan and infinities;                                             *)
(*   the worker of the queue-based variant, fed updates that hold them;     *)
(*   process_update of the engine, called with payloads that hold them.     *)

MaxSanBatch == 3

SanValues == {1, -3, InfCode, NegInfCode, NaNCode}

Algos == {"trimmed_mean", "median", "fedavg"}

SanInputs(maxLen) ==
    UNION {{[stage |-> "aggregate_input", template |-> ScalarTemplate, algo |-> algo,
             batch |-> BatchOf([i \in 1..n |-> ScalarWeights(xs[i])])] :
               xs \in [1..n -> SanValues], algo \in Algos} :
           n \in 1..maxLen}

\* the weights the clients of the worker send: finite, with a nan, with an infinity
SanClientWeights ==
    [f |-> [W |-> <<1, 1>>, b |-> <<1>>],
     n |-> [W |-> <<NaNCode, 1>>, b |-> <<1>>],
     p |-> [W |-> <<InfCode, 1>>, b |-> <<-1>>]]

\* an update of client c with the weights w is put on update_queue
EnqueueWeights(c, w) ==
    /\ nSubmitted < MaxUpdates
    /\ nSubmitted' = nSubmitted + 1
    /\ Len(update_queue) < MaxQueue
    /\ update_queue' = Append(update_queue, [id |-> nSubmitted + 1, client_id |-> c, weights |-> w,
                                              _flagged |-> FALSE, _flag_reason |-> ""])
    /\ admission' = Append(admission, [age |-> 0, status |-> "queued"])
    /\ QueueFrame

SanInit ==
    /\ InitQueue({NoFile}, {<<RInt(0), RInt(0)>>})
    /\ InitEngine
    /\ probe \in SanInputs(MaxSanBatch) \cup {[stage |-> "worker"], [stage |-> "engine"]}

\* aggregate(batch, template, algo)
ProbeAggregate ==
    /\ probe.stage = "aggregate_input"
    /\ probe' = [stage |-> "aggregated", template |-> probe.template, algo |-> probe.algo,
                 batch |-> probe.batch,
                 raw |-> AlgoResult(probe.batch, probe.template, probe.algo),
                 out |-> aggregate_with(probe.batch, probe.template, probe.algo)]
    /\ UNCHANGED <<queueVars, engineVars>>

SanNext ==
    \/ ProbeAggregate
    \/ /\ probe.stage = "worker"
       /\ \/ \E c \in DOMAIN SanClientWeights: EnqueueWeights(c, SanClientWeights[c])
          \/ WorkerDequeue
          \/ WorkerTimeout
          \/ WorkerSleep
          \/ WorkerFilter
          \/ WorkerAggregate
          \/ WorkerLock
          \/ WorkerCommit
          \/ WorkerSaveRound
          \/ WorkerClientStats
    \/ /\ probe.stage = "engine"
       /\ \E h \in {"h1"}:
             \/ PuCall(h, AdmitPayloads, {1}, MaxAdmitCalls)
             \/ PuValidate(h)
             \/ PuLogged(h)
             \/ PuCreate(h)

SanSpec == SanInit /\ [][SanNext]_vars

----------------------------------------------------------------------------
(* The worker with a clock.                                                 *)
(* probe.clock is the time in seconds since the worker last computed a      *)
(* deadline, probe.deadline the worker's local deadline on that clock       *)
(* (deadline - time.monotonic() is the code's `remaining`).  Time passes in *)
(* steps of TickSeconds while the worker waits in the drain loop; wait_for  *)
(* raises TimeoutError when the deadline is reached, so the clock does not  *)
(* pass it while the worker waits.                                          *)

TickSeconds == 10

\* deadline = time.monotonic() + MAX_WAIT_SECONDS at the top of the outer loop
NewWindow == [stage |-> "window", clock |-> 0, deadline |-> MAX_WAIT_SECONDS]

WindowInit ==
    /\ InitQueue({NoFile}, {<<RInt(0), RInt(0)>>})
    /\ InitEngine
    /\ probe = NewWindow

\* a step of the worker; when it ends up at the top of the outer loop, a new deadline
WithDeadline(step) ==
    /\ step
    /\ probe' = IF wpc' = "collect" THEN NewWindow ELSE probe

Remaining == probe.deadline - probe.clock

\* time passes while the worker waits in wait_for
Tick ==
    /\ wpc = "collect"
    /\ Remaining > 0
    /\ probe' = [probe EXCEPT !.clock = IF @ + TickSeconds > probe.deadline
                                         THEN probe.deadline ELSE @ + TickSeconds]
    /\ UNCHANGED <<queueVars, engineVars>>

\* the drain loop with a deadline that starts anew with every update
TimedDequeue_extends_deadline ==
    /\ Remaining > 0
    /\ DequeueStep
    /\ probe' = IF wpc' = "collect"
                THEN [probe EXCEPT !.deadline = probe.clock + MAX_WAIT_SECONDS]
                ELSE probe

\* remaining > 0 and update_queue.get() returns before the timeout
TimedDequeue ==
    /\ Remaining > 0
    /\ DequeueStep
    /\ probe' = probe

\* remaining <= 0 at line 100, or wait_for raises TimeoutError at the deadline
TimedTimeout ==
    /\ Remaining <= 0
    /\ TimeoutStep
    /\ probe' = probe

WindowNext ==
    \/ \E c \in {"a", "s"}: Enqueue(c)
    \/ Tick
    \/ TimedDequeue
    \/ TimedTimeout
    \/ WithDeadline(SleepStep)
    \/ WithDeadline(FilterStep)
    \/ WithDeadline(AggregateStep)
    \/ WorkerLock
    \/ WorkerCommit
    \/ WorkerSaveRound
    \/ WithDeadline(ClientStatsStep)

WindowSpec == WindowInit /\ [][WindowNext]_vars

----------------------------------------------------------------------------
(* The worker with the audit tables.                                        *)
(* probe.ClientRecord is the ClientRecord table of the audit database,      *)
(* probe.lost the rounds whose _save_round_to_db write failed and           *)
(* probe.stats_lost the rounds whose _update_client_stats_in_db write       *)
(* failed; both failures are caught and logged inside the two functions.    *)

\* number of updates submitted while the audit tables are watched
MaxAuditUpdates == 3

NoRecords == [c \in Clients |-> [total_updates |-> 0, flagged_count |-> 0]]

CountOf(c, batch) == Cardinality({i \in 1..Len(batch): batch[i].client_id = c})

\* _save_round_to_db._write: the ClientRecord of every flagged update
RecordFlagged(records, batch) ==
    [c \in Clients |->
        [total_updates |-> records[c].total_updates + CountOf(c, Flagged(batch)),
         flagged_count |-> records[c].flagged_count + CountOf(c, Flagged(batch))]]

\* _update_client_stats_in_db._write: the ClientRecord of every clean update
RecordClean(records, batch) ==
    [c \in Clients |->
        [records[c] EXCEPT !.total_updates = @ + CountOf(c, batch)]]

AuditInit ==
    /\ InitQueue({NoFile}, {<<RInt(0), RInt(0)>>})
    /\ InitEngine
    /\ probe = [stage |-> "audit", ClientRecord |-> NoRecords, lost |-> {}, stats_lost |-> {}]

AuditSaveRound ==
    /\ SaveRoundStep
    /\ probe' = IF roundHistory' = roundHistory
                THEN [probe EXCEPT !.lost = @ \cup {new_round_id[1]}]
                ELSE [probe EXCEPT !.ClientRecord = RecordFlagged(@, updates)]

AuditClientStats ==
    /\ ClientStatsStep
    /\ probe' \in {[probe EXCEPT !.ClientRecord = RecordClean(@, clean)],
                   [probe EXCEPT !.stats_lost = @ \cup {new_round_id[1]}]}

AuditNext ==
    \/ \E c \in Clients: nSubmitted < MaxAuditUpdates /\ Enqueue(c)
    \/ WorkerDequeue
    \/ WorkerTimeout
    \/ WorkerSleep
    \/ WorkerFilter
    \/ WorkerAggregate
    \/ WorkerLock
    \/ WorkerCommit
    \/ AuditSaveRound
    \/ AuditClientStats

AuditSpec == AuditInit /\ [][AuditNext]_vars

----------------------------------------------------------------------------
(* Shutdown: lifespan cancels the worker task (app.py 28-32).               *)
(* task.cancel() raises CancelledError in the worker at the await where it  *)
(* is suspended; CancelledError is not an Exception, so none of the         *)
(* worker's handlers catches it and the task ends (wpc = "cancelled").      *)
(* probe.committed is the set of (round_id, weights) pairs the store has    *)
(* held.                                                                    *)

\* number of updates submitted before the shutdown
MaxShutdownUpdates == 3

\* the await expressions of the worker: wait_for(update_queue.get()), sleep,
\* get_weights(), the lock of set_weights, and the two audit writes
AwaitPoints == {"collect", "sleep", "get_weights", "set_weights", "save_round", "client_stats"}

StorePair == [round_id |-> _round_id, weights |-> _weights]

ShutdownInit ==
    /\ InitQueue({NoFile, FileWith(OldSnapshot)}, {<<RInt(0), RInt(0)>>})
    /\ InitEngine
    /\ probe = [stage |-> "shutdown", committed |-> {StorePair}]

\* a cancellation that lands between the two assignments of set_weights
Cancel_between_assignments ==
    /\ wpc \in AwaitPoints \cup {"locked"}
    /\ wpc' = "cancelled"
    /\ _weights' = IF wpc = "locked" THEN new_weights[1] ELSE _weights
    /\ _lock' = "free"
    /\ UNCHANGED <<engineVars, probe>>
    /\ UNCHANGED <<_round_id, disk, update_queue, updates, clean, new_weights, new_round_id,
                   _stats, roundHistory, queueHist>>

\* task.cancel(): CancelledError at the await where the worker is suspended
Cancel ==
    /\ wpc \in AwaitPoints
    /\ wpc' = "cancelled"
    /\ UNCHANGED <<engineVars, probe>>
    /\ UNCHANGED <<storeVars, update_queue, updates, clean, new_weights, new_round_id,
                   _stats, roundHistory, queueHist>>

ShutdownCommit ==
    /\ CommitStep
    /\ probe' = [probe EXCEPT !.committed = @ \cup {[round_id |-> _round_id', weights |-> _weights']}]

ShutdownNext ==
    \/ \E c \in Clients: nSubmitted < MaxShutdownUpdates /\ Enqueue(c)
    \/ WorkerDequeue
    \/ WorkerTimeout
    \/ WorkerSleep
    \/ WorkerFilter
    \/ WorkerAggregate
    \/ WorkerLock
    \/ ShutdownCommit
    \/ WorkerSaveRound
    \/ WorkerClientStats
    \/ Cancel

ShutdownSpec == ShutdownInit /\ [][ShutdownNext]_vars

----------------------------------------------------------------------------
(* Restart: the process ends and a new one imports model_store, which runs  *)
(* _load_from_disk again (model_store.py 67).  Everything in memory is      *)
(* gone; weights.json and the audit database stay.  probe.restarts counts   *)
(* the restarts.                                                            *)

\* number of restarts in one behaviour
MaxRestarts == 2

\* number of updates submitted over all runs of the process
MaxRestartUpdates == 3

RestartInit ==
    /\ InitQueue({NoFile}, RandomW)
    /\ InitEngine
    /\ probe = [stage |-> "restart", restarts |-> 0]

Restart ==
    /\ probe.restarts < MaxRestarts
    /\ probe' = [probe EXCEPT !.restarts = @ + 1]
    /\ \E w \in RandomW:
          /\ _round_id' = _load_from_disk(disk, w).round_id
          /\ _weights' = _load_from_disk(disk, w).weights
    /\ _lock' = "free"
    /\ update_queue' = <<>>
    /\ wpc' = "collect"
    /\ NoLocals
    /\ _stats' = [last_aggregation |-> "none", total_rounds_aggregated |-> 0,
                  total_updates_received |-> 0, total_flagged |-> 0]
    /\ initRound' = _round_id'
    /\ nCompleted' = 0
    /\ lastReturned' = <<>>
    /\ lastPublished' = [round_id |-> _round_id', weights |-> _weights']
    /\ UNCHANGED engineVars
    /\ UNCHANGED <<disk, roundHistory, nSubmitted, admission, nAllFlagged, nAggFailed,
                   nAggOk, batchLog>>

RestartNext ==
    \/ \E c \in Clients: nSubmitted < MaxRestartUpdates /\ Enqueue(c)
    \/ WorkerDequeue
    \/ WorkerTimeout
    \/ WorkerSleep
    \/ WorkerFilter
    \/ WorkerAggregate
    \/ WorkerLock
    \/ WorkerCommit
    \/ WorkerSaveRound
    \/ WorkerClientStats
    \/ Restart

RestartSpec == RestartInit /\ [][RestartNext]_vars

----------------------------------------------------------------------------
(* detector.py: the weight codec on Python dicts.                           *)
(* A dict is the sequence of its items <<key, array>> in insertion order,   *)
(* with distinct keys.  An array is [dim |-> 1, data |-> values] or         *)
(* [dim |-> 2, data |-> rows], as np.array sees a list or a list of lists.  *)
(* A value is an integer; BigOdd stands for the int 2^53 + 1, which float64 *)
(* cannot hold, and BigEven for 2^53.                                       *)

BigEven == 900000000
BigOdd == BigEven + 1

\* np.array(v, dtype=np.float64) of one value: 2^53 + 1 rounds to 2^53
ToFloat64(x) == IF x = BigOdd THEN BigEven ELSE x

\* Python's order of the layer names (code points): "W" < "a" < "b"
KeyRank == [W |-> 1, a |-> 2, b |-> 3]

KeysOf(items) == [i \in 1..Len(items) |-> items[i][1]]

KeySet(items) == {items[i][1] : i \in 1..Len(items)}

\* the position of key k in the dict
Get(items, k) == CHOOSE i \in 1..Len(items): items[i][1] = k

\* the keys in the order the dict was filled
sorted_keys_as_inserted(items) == KeysOf(items)

\* sorted(weights.keys())
sorted_keys(items) == SortSeq(KeysOf(items), LAMBDA x, y: KeyRank[x] < KeyRank[y])

RECURSIVE ConcatAll(_)
ConcatAll(seqs) == IF seqs = <<>> THEN <<>> ELSE Head(seqs) \o ConcatAll(Tail(seqs))

\* np.array(v, dtype=np.float64).flatten(): row-major
Flat(arr) ==
    IF arr.dim = 1 THEN [j \in 1..Len(arr.data) |-> ToFloat64(arr.data[j])]
    ELSE ConcatAll([r \in 1..Len(arr.data) |->
                       [j \in 1..Len(arr.data[r]) |-> ToFloat64(arr.data[r][j])]])

\* arr.size
ArraySize(arr) == Len(Flat(arr))

\* np.concatenate raises on an empty list of parts
FlattenDictRaises(items) == items = <<>>

\* _flatten on a dict
_flatten_dict(items) ==
    LET keys == sorted_keys(items)
    IN  ConcatAll([i \in 1..Len(keys) |-> Flat(items[Get(items, keys[i])][2])])

\* flat[offset:offset + size].reshape(arr.shape).tolist()
Reshape(slice, arr) ==
    IF arr.dim = 1 THEN [dim |-> 1, data |-> slice]
    ELSE [dim |-> 2,
          data |-> [r \in 1..Len(arr.data) |->
                       SubSeq(slice, (r - 1) * Len(arr.data[1]) + 1, r * Len(arr.data[1]))]]

\* the offset of the i-th layer in sorted order
RECURSIVE DictOffset(_, _, _)
DictOffset(template, keys, i) ==
    IF i = 1 THEN 0
    ELSE DictOffset(template, keys, i - 1)
         + ArraySize(template[Get(template, keys[i - 1])][2])

\* reshape raises when the slice holds fewer values than the template's layer
UnflattenDictRaises(flat, template) ==
    LET keys == sorted_keys(template)
    IN  \E i \in 1..Len(keys):
           /\ ArraySize(template[Get(template, keys[i])][2]) > 0
           /\ Len(flat) < DictOffset(template, keys, i)
                            + ArraySize(template[Get(template, keys[i])][2])

\* _unflatten on a dict: the result is filled in sorted key order
_unflatten_dict(flat, template) ==
    LET keys == sorted_keys(template)
    IN  [i \in 1..Len(keys) |->
            LET arr == template[Get(template, keys[i])][2]
                offset == DictOffset(template, keys, i)
            IN  <<keys[i], Reshape(SubSeq(flat, offset + 1, offset + ArraySize(arr)), arr)>>]

\* number of layers of the dicts given to the codec
MaxLayers == 2

CodecKeys == DOMAIN KeyRank

CodecArrays ==
    {[dim |-> 1, data |-> <<1, 2>>], [dim |-> 1, data |-> <<3>>],
     [dim |-> 2, data |-> <<(<<1, 2>>), (<<3, 4>>)>>],
     [dim |-> 2, data |-> <<(<<5>>), (<<6>>)>>],
     [dim |-> 1, data |-> <<BigOdd>>]}

\* the dicts of up to MaxLayers layers, in every insertion order
CodecDicts(maxLen) ==
    UNION {{d \in [1..n -> CodecKeys \X CodecArrays] :
               \A i, j \in 1..n: d[i][1] = d[j][1] => i = j} : n \in 0..maxLen}

CodecTemplates ==
    {<<(<<"W", [dim |-> 1, data |-> <<0>>]>>)>>,
     <<(<<"b", [dim |-> 1, data |-> <<0>>]>>), (<<"W", [dim |-> 2, data |-> <<(<<0, 0>>)>>]>>)>>}

CodecInit ==
    /\ InitQueue({NoFile}, {<<RInt(0), RInt(0)>>})
    /\ InitEngine
    /\ probe \in {[stage |-> "codec_input", w |-> d] : d \in CodecDicts(MaxLayers)}

\* _unflatten(_flatten(w), w)
ProbeRoundTrip ==
    /\ probe.stage = "codec_input"
    /\ probe' = IF FlattenDictRaises(probe.w)
                THEN [stage |-> "codec_raised", w |-> probe.w]
                ELSE [stage |-> "round_trip", w |-> probe.w, flat |-> _flatten_dict(probe.w),
                      back |-> _unflatten_dict(_flatten_dict(probe.w), probe.w)]
    /\ UNCHANGED <<queueVars, engineVars>>

\* _unflatten(_flatten(w), template) for a template of another shape
ProbeUnflatten ==
    /\ probe.stage = "codec_input"
    /\ ~FlattenDictRaises(probe.w)
    /\ \E t \in CodecTemplates:
          probe' = [stage |-> "unflattened", w |-> probe.w, template |-> t,
                    raised |-> UnflattenDictRaises(_flatten_dict(probe.w), t),
                    out |-> IF UnflattenDictRaises(_flatten_dict(probe.w), t) THEN <<>>
                            ELSE _unflatten_dict(_flatten_dict(probe.w), t)]
    /\ UNCHANGED <<queueVars, engineVars>>

CodecNext == ProbeRoundTrip \/ ProbeUnflatten

CodecSpec == CodecInit /\ [][CodecNext]_vars

----------------------------------------------------------------------------
(* process_update with payloads whose layers differ from the base's *)

\* number of process_update calls with such payloads
MaxKeyCalls == 5

\* a payload with a layer the base does not have
ExtraLayerPayload == [weight |-> <<RInt(5)>>, bias |-> <<RInt(5)>>, extra |-> <<RInt(7), RInt(7)>>]

KeyPayloads == {StepPayload, MissingLayerPayload, MisshapenPayload, ExtraLayerPayload}

KeysNext ==
    \E h \in {"h1"}:
        \/ PuCall(h, KeyPayloads, {1}, MaxKeyCalls)
        \/ PuValidate(h)
        \/ PuLogged(h)
        \/ PuCreate(h)

KeysSpec == EngineInit /\ [][KeysNext]_vars

----------------------------------------------------------------------------
(* process_update and the Client table.  The table is written by the views  *)
(* (get_or_create at sign-in), which run beside the engine.  In these       *)
(* behaviours probe holds the table's client_ids, the client_id of every    *)
(* running request, and the calls answered "Unauthorized Node".             *)
(* hpc: "client"  at await Client.objects.get (line 103)                    *)

\* number of process_update calls
MaxRegistryCalls == 6

ClientIds == {"node_a", "node_x"}

RegistryInit ==
    /\ InitQueue({NoFile}, {<<RInt(0), RInt(0)>>})
    /\ InitEngine
    /\ probe = [stage |-> "registry", Client |-> {"node_a"},
                client_id |-> [h \in Handlers |-> ""], unauthorized |-> {}]

\* views.py: Client.objects.get_or_create for a user who signs in
Register ==
    /\ \E c \in ClientIds \ probe.Client: probe' = [probe EXCEPT !.Client = @ \cup {c}]
    /\ UNCHANGED <<queueVars, engineVars>>

\* the call of process_update(client_id, client_weights, base_version)
PuRequest(h, payloads, base_versions, limit) ==
    /\ hpc[h] = "idle"
    /\ nCalls < limit
    /\ nCalls' = nCalls + 1
    /\ \E c \in ClientIds, cw \in payloads, bv \in base_versions:
          /\ hloc' = [hloc EXCEPT ![h] = [Idle EXCEPT !.op = "submit", !.gid = nCalls + 1,
                          !.client_weights = <<cw>>, !.base_version = bv]]
          /\ probe' = [probe EXCEPT !.client_id[h] = c]
    /\ hpc' = [hpc EXCEPT ![h] = "client"]
    /\ consumed' = Append(consumed, 0)
    /\ UNCHANGED <<queueVars, engineState, nAdmin, eventLog>>

\* PuClient without the except branch: an unknown client_id goes on to the query
PuClient_admits_unknown(h) ==
    /\ hpc[h] = "client"
    /\ \E l \in LatestChoices(GlobalModel): hloc' = [hloc EXCEPT ![h].latest = l]
    /\ hpc' = [hpc EXCEPT ![h] = "loaded"]
    /\ UNCHANGED probe
    /\ UNCHANGED <<queueVars, engineState, engineHist>>

\* lines 102-107: Client.objects.get returns the row and the query for the latest
\* version runs, or it raises Client.DoesNotExist and the call returns "rejected"
PuClient(h) ==
    /\ hpc[h] = "client"
    /\ IF probe.client_id[h] \in probe.Client
       THEN /\ \E l \in LatestChoices(GlobalModel): hloc' = [hloc EXCEPT ![h].latest = l]
            /\ hpc' = [hpc EXCEPT ![h] = "loaded"]
            /\ UNCHANGED probe
       ELSE /\ hloc' = [hloc EXCEPT ![h] = Idle]
            /\ hpc' = [hpc EXCEPT ![h] = "idle"]
            /\ probe' = [probe EXCEPT !.unauthorized = @ \cup {hloc[h].gid}]
    /\ UNCHANGED <<queueVars, engineState, engineHist>>

RegistryNext ==
    \/ Register
    \/ \E h \in Handlers:
        \/ PuRequest(h, {StepPayload}, {1}, MaxRegistryCalls)
        \/ PuClient(h)
        \/ PuValidate(h)
        \/ PuLogged(h)
        \/ PuCreate(h)

RegistrySpec == RegistryInit /\ [][RegistryNext]_vars

\* The two variants share no variable.  In a behaviour of the whole system the
\* clients use one ingestion path: the queue, or the engine's endpoints; the
\* aggregation_worker runs in both cases.
QueueUnused == nSubmitted = 0

EngineUnused == nCalls = 0 /\ nAdmin = 0

\* number of updates put on the queue in a behaviour of the whole system
MaxSystemUpdates == 3

SystemNext ==
    \/ \E c \in Clients: EngineUnused /\ nSubmitted < MaxSystemUpdates /\ Enqueue(c)
    \/ WorkerDequeue
    \/ WorkerTimeout
    \/ WorkerSleep
    \/ WorkerFilter
    \/ WorkerAggregate
    \/ WorkerLock
    \/ WorkerCommit
    \/ WorkerSaveRound
    \/ WorkerClientStats
    \/ \E h \in Handlers:
        \/ PuCall(h, {StepPayload}, {1}, IF QueueUnused THEN MaxCalls ELSE 0)
        \/ PuValidate(h)
        \/ PuLogged(h)
        \/ PuCreate(h)
        \/ RbCall(h, {1}, IF QueueUnused THEN MaxAdmin ELSE 0)
        \/ RbCopy(h)
        \/ RbCreate(h)
        \/ DlCall(h, IF QueueUnused THEN MaxAdmin ELSE 0)
        \/ DlRemove(h)
        \/ DlDelete(h)
        \/ DlClear(h)

SystemSpec == EngineInit /\ [][SystemNext]_vars

----------------------------------------------------------------------------
(* Properties of the queue-based variant *)

\* C1: every completed set_weights call raises the version by exactly 1 and returns
\* the new version: after k completed calls the version is initRound + k, the k-th
\* call returned initRound + k, and the version is never below initRound.
C1_VersionCountsCommits ==
    /\ _round_id = initRound + nCompleted
    /\ nCompleted > 0 <=> lastReturned # <<>>
    /\ lastReturned # <<>> => lastReturned[1] = initRound + nCompleted

\* two set_weights calls have completed
C1_Witness == nCompleted = 2 /\ lastReturned = <<initRound + 2>>

\* C2: in every state, whatever the worker is doing (also while it holds the lock),
\* get_weights() and get_round_id() return the version and the weights that the
\* latest completed set_weights call published together (the loaded state before
\* the first call).
C2_ReadsArePublishedPairs ==
    /\ get_weights = lastPublished
    /\ get_round_id = lastPublished.round_id

\* a read while the second set_weights call holds the lock
C2_Witness ==
    /\ wpc = "locked"
    /\ nCompleted = 1
    /\ get_weights.round_id = initRound + 1
    /\ new_weights # <<get_weights.weights>>

\* C3: the version counts the rounds that had a clean update and whose aggregation
\* returned, whatever the number of rounds abandoned because all updates were flagged
\* or because aggregation failed; a round abandoned because all updates were flagged
\* changes neither the version nor the weights.
C3_StateInv ==
    /\ nCompleted = nAggOk - (IF wpc \in {"set_weights", "locked"} THEN 1 ELSE 0)
    /\ _round_id = initRound + nCompleted
    /\ initRound = 0 => _round_id = nCompleted

\* C3: the version counts the committed clean rounds in every state, and no step
\* that abandons an all-flagged round changes the version or the weights
C3_VersionCountsCleanRounds ==
    /\ []C3_StateInv
    /\ [][nAllFlagged' # nAllFlagged => UNCHANGED <<_round_id, _weights>>]_vars

\* a round with all updates flagged, then a committed round
C3_Witness ==
    /\ nAllFlagged = 1
    /\ nCompleted = 1
    /\ _round_id = initRound + 1

\* C4: a committed version comes from a batch of at least two updates (just after
\* set_weights returns, the worker's batch is the batch the commit came from)
C4_NoSingleUpdateCommit == wpc = "save_round" => Len(updates) >= 2

----------------------------------------------------------------------------
(* Properties of the federated engine and of the whole system *)

AggregationEvents == {i \in 1..Len(eventLog): eventLog[i].op = "aggregation"}

\* C5: under any interleaving of concurrent process_update calls, every aggregation
\* publishes the version one above the highest version of the table at the moment
\* its row is created, writes a weights file that did not exist, and no two
\* aggregations publish the same version number.
C5_AggregationsPublishFreshVersions ==
    \A i \in AggregationEvents:
        /\ eventLog[i].version = eventLog[i].top + 1
        /\ ~eventLog[i].overwrote
        /\ \A j \in AggregationEvents: j # i => eventLog[j].version # eventLog[i].version

\* C9: every accepted update is input to at most one aggregation.  An update taken
\* from update_queue has entered exactly one worker batch and is in the queue no
\* more; an update still in the queue has entered none.  A delta of the engine's
\* buffer has been input to no aggregation while it is in the buffer and to at most
\* one afterwards, whatever the interleaving of the handlers.
C9_ConsumedAtMostOnce ==
    /\ \A i \in DOMAIN batchLog: batchLog[i] <= 1
    /\ \A i \in 1..Len(update_queue): batchLog[update_queue[i].id] = 0
    /\ \A i \in 1..Len(updates): batchLog[updates[i].id] = 1
    /\ \A i \in DOMAIN consumed: consumed[i] <= 1
    /\ \A i \in BufferIds: consumed[i] = 0

\* a call has aggregated five deltas, among them the delta of another call that
\* is still suspended at its log and trust writes
C9_Witness ==
    /\ Cardinality({i \in DOMAIN consumed: consumed[i] = 1}) = BUFFER_SIZE
    /\ _update_buffer = <<>>
    /\ \E h, g \in Handlers:
          /\ hpc[h] = "create" /\ hloc[h].op = "submit"
          /\ hpc[g] = "log" /\ hloc[g].accepted
          /\ consumed[hloc[g].gid] = 1

\* C10: no process_update call aggregates or publishes a version itself
C10_SubmitNeverPublishes ==
    /\ AggregationEvents = {}
    /\ \A h \in Handlers: hloc[h].op = "submit" => hpc[h] # "create"

----------------------------------------------------------------------------
(* Properties of the version history, requests served one at a time *)

LatestVersion == MaxOf(Versions(GlobalModel))

CreatedEvents == {i \in 1..Len(eventLog): eventLog[i].created}

\* C6: the latest version is never below a version published before, and
\* a number is never published twice with different weights
C6_LatestNeverDecreases ==
    /\ LatestVersion >= 1
    /\ \A i \in CreatedEvents:
          /\ LatestVersion >= eventLog[i].version
          /\ eventLog[i].version = 1 => eventLog[i].weights = <<InitialWeights>>
          /\ \A j \in CreatedEvents:
                eventLog[j].version = eventLog[i].version =>
                    eventLog[j].weights = eventLog[i].weights

\* the rows of the table are kept, and the file of each holds what it held
RowsAndFilesKept ==
    \A r \in RowSet(GlobalModel):
        /\ r \in RowSet(GlobalModel')
        /\ r.weights_path \in DOMAIN weights_bank =>
              /\ r.weights_path \in DOMAIN weights_bank'
              /\ weights_bank'[r.weights_path] = weights_bank[r.weights_path]

\* C7: rollback(v) for a version v of the table reaches the creation of a row; the
\* row is new, is numbered latest + 1 and its file holds the weights of version v;
\* no step of the rollback changes a row that existed or the content of its file;
\* the aggregation that follows a rollback publishes the number one above it.
C7_StepRule ==
    \A h \in Handlers:
        /\ hloc[h].op = "rollback" /\ hpc[h] # hpc'[h] => RowsAndFilesKept
        /\ hloc[h].op = "rollback" /\ hpc[h] = "loaded" =>
              /\ GlobalModel' = GlobalModel
              /\ hloc[h].target_version \in Versions(GlobalModel) => hpc'[h] = "create"
        /\ hloc[h].op = "rollback" /\ hpc[h] = "create" /\ hpc'[h] = "idle" =>
              LET row == GlobalModel'[Len(GlobalModel')]
              IN  /\ GlobalModel' = Append(GlobalModel, row)
                  /\ row.version = LatestVersion + 1
                  /\ row.version = eventLog'[Len(eventLog')].version
                  /\ hloc[h].target # <<>>
                  /\ hloc[h].target[1] \in RowSet(GlobalModel')
                  /\ hloc[h].target[1].version = hloc[h].target_version
                  /\ row.weights_path \in DOMAIN weights_bank'
                  /\ weights_bank'[row.weights_path] =
                        weights_bank'[hloc[h].target[1].weights_path]

C7_CommitAfterRollback ==
    \A i \in 1..Len(eventLog):
        eventLog[i].op = "rollback" =>
            /\ eventLog[i].created
            /\ i < Len(eventLog) /\ eventLog[i + 1].op = "aggregation" =>
                  eventLog[i + 1].version = eventLog[i].version + 1

\* C7: the rule of the rollback's steps and the rule of the commit that follows it
C7_RollbackCreatesNewVersion == []C7_CommitAfterRollback /\ [][C7_StepRule]_vars

\* a rollback to version 1 made version 2, and the next aggregation published version 3
C7_Witness ==
    /\ Len(eventLog) = 2
    /\ eventLog[1].op = "rollback" /\ eventLog[1].version = 2
    /\ eventLog[1].weights = <<InitialWeights>>
    /\ eventLog[2].op = "aggregation" /\ eventLog[2].version = 3
    /\ Versions(GlobalModel) = {1, 2, 3}
    /\ weights_bank[2] = weights_bank[1]

Returns(h) == hpc[h] # "idle" /\ hpc'[h] = "idle"

\* C8: every version record (number and weights) that exists when a rollback or a
\* delete_latest begins exists with the same number and weights when it returns
C8_AdminKeepsEveryRecord ==
    [][\A h \in Handlers:
          hloc[h].op \in {"rollback", "delete"} /\ Returns(h) =>
              hloc[h].before \subseteq Records(GlobalModel', weights_bank')]_vars

----------------------------------------------------------------------------
(* Properties of admission in the federated engine *)

\* the step of a process_update call from the loaded base weights to its log writes
Admits(h) == hpc[h] = "loaded" /\ hloc[h].op = "submit" /\ hpc'[h] = "log"

\* the call answers "rejected" and nothing is buffered
Rejected(h) == ~hloc'[h].accepted /\ _update_buffer' = _update_buffer

LayerMissing(cw, template) == \E k \in DOMAIN template: k \notin DOMAIN cw

ShapeDiffers(cw, template) ==
    \E k \in DOMAIN template \cap DOMAIN cw: Len(cw[k]) # Len(template[k])

ValueNotFinite(cw) == \E k \in DOMAIN cw: \E j \in 1..Len(cw[k]): ~IsFinite(cw[k][j])

\* the layers of the template that the payload holds with the template's shape
ComparedLayers(cw, template) ==
    {k \in DOMAIN template: k \in DOMAIN cw /\ Len(cw[k]) = Len(template[k])}

DeltaNotFinite(cw, template) ==
    \E k \in ComparedLayers(cw, template): \E j \in 1..Len(cw[k]): ~IsFinite(cw[k][j])

\* the L2 norm of the differences on the compared layers exceeds NORM_THRESHOLD
DeltaNormExceeds(cw, template) ==
    LET d == [k \in ComparedLayers(cw, template) |->
                 [j \in 1..Len(cw[k]) |-> RSub(cw[k][j], template[k][j])]]
        flat == FlatOf(d, DOMAIN d)
    IN  \/ \E j \in 1..Len(flat): RExceedsInt(<<Abs(flat[j][1]), flat[j][2]>>, NORM_THRESHOLD)
        \/ RExceedsInt(RSum([j \in 1..Len(flat) |-> RMul(flat[j], flat[j])]),
                       NORM_THRESHOLD * NORM_THRESHOLD)

RejectionStep(h) ==
    \/ Admits(h) /\ ~hloc'[h].accepted
    \/ hpc[h] = "log" /\ hloc[h].op = "submit" /\ ~hloc[h].accepted /\ Returns(h)

\* C12 as stated: a submission rejected by validation or by the cosine check changes
\* nothing of the engine's state: the buffer, the reference direction, the versions
\* and their weights and both session counters are after the call what they were
\* before it (requests are served one at a time, so the call's steps are the only
\* steps between its beginning and its return).
C12_RejectionChangesNothing ==
    [][\A h \in Handlers: RejectionStep(h) =>
          UNCHANGED <<_update_buffer, _reference_direction, GlobalModel, weights_bank,
                      _session_accepted, _session_rejected>>]_vars

\* C12 amended: a rejected submission leaves the buffer, the reference direction,
\* the versions and their weights and the counter of accepted updates as they
\* were, and raises the counter of rejected updates by exactly one.
C12_RejectionCountsOnly ==
    [][\A h \in Handlers:
          /\ RejectionStep(h) =>
                UNCHANGED <<_update_buffer, _reference_direction, GlobalModel, weights_bank,
                            _session_accepted>>
          /\ Admits(h) /\ ~hloc'[h].accepted => _session_rejected' = _session_rejected + 1
          /\ hpc[h] = "log" /\ Returns(h) => _session_rejected' = _session_rejected]_vars

\* after a first aggregation the opposite step has been rejected by the cosine
\* check and the call is about to return
C12_Witness ==
    /\ hpc["h1"] = "log"
    /\ hloc["h1"].client_weights = <<OppositePayload>>
    /\ ~hloc["h1"].accepted
    /\ _reference_direction # <<>>
    /\ _session_rejected = 1
    /\ _session_accepted = BUFFER_SIZE

----------------------------------------------------------------------------
(* Properties of admission in the queue-based variant *)

InQueue(i) == \E k \in 1..Len(update_queue): update_queue[k].id = i

InBatch(i) == \E k \in 1..Len(updates): updates[k].id = i

\* C13: a submission whose round_id is below current_round - STALENESS_WINDOW, that
\* is, more than STALENESS_WINDOW = 3 rounds old, gets the stale-update error, is
\* never on the queue and enters no worker batch; every other submission is
\* admitted: it is on the queue or has entered a worker batch.
C13_StaleNeverBatched ==
    \A i \in 1..Len(admission):
        /\ admission[i].age > 3 <=> admission[i].status = "stale"
        /\ admission[i].status = "stale" => ~InQueue(i) /\ ~InBatch(i) /\ batchLog[i] = 0
        /\ admission[i].status # "stale" => InQueue(i) \/ batchLog[i] = 1

\* an update four rounds old was refused, and an update three rounds old is in
\* the batch of a round that has committed
C13_Witness ==
    /\ \E i \in 1..Len(admission): admission[i] = [age |-> 4, status |-> "stale"]
    /\ \E j \in 1..Len(admission):
          admission[j] = [age |-> 3, status |-> "queued"] /\ InBatch(j)
    /\ wpc = "save_round"

----------------------------------------------------------------------------
(* Properties of the staleness discount of the federated engine *)

\* client - base, layer by layer, for a payload with the template's layers and shapes
RawDelta(cw, template) ==
    [k \in DOMAIN template |->
        [j \in 1..Len(template[k]) |-> RSub(cw[k][j], template[k][j])]]

Times(delta, n) ==
    [k \in DOMAIN delta |-> [j \in 1..Len(delta[k]) |-> RMul(delta[k][j], RInt(n))]]

RAbs(x) == <<Abs(x[1]), x[2]>>

NotLarger(d1, d2) ==
    \A k \in DOMAIN d1: \A j \in 1..Len(d1[k]): ~RLess(RAbs(d2[k][j]), RAbs(d1[k][j]))

\* C14: with staleness = max(0, current_version - base_version), the delta that is
\* buffered is the delta times 1/(1 + staleness): unscaled when base_version >=
\* current_version, and (1 + current_version - base_version) times the buffered
\* delta is the delta otherwise; of two stalenesses the larger never gives the
\* larger scaled delta; and every well-formed update in the direction of the
\* reference is buffered whatever its base_version.
C14_StalenessDiscount ==
    [][\A h \in Handlers: Admits(h) =>
          LET current_version == LatestVersion
              base_version == hloc[h].base_version
              raw == RawDelta(hloc[h].client_weights[1], weights_bank[PathOf(LatestVersion)])
              buffered == _update_buffer'[Len(_update_buffer')].delta
          IN  /\ hloc'[h].accepted
              /\ _update_buffer' = Append(_update_buffer, [id |-> hloc[h].gid, delta |-> buffered])
              /\ base_version >= current_version => buffered = raw
              /\ base_version < current_version =>
                    Times(buffered, 1 + current_version - base_version) = raw
              /\ \A s1, s2 \in 0..3:
                    s1 <= s2 => NotLarger(scale_delta(raw, s2), scale_delta(raw, s1))]_vars

\* an update trained from version 0 is buffered while version 2 is the latest: the
\* buffered delta is a third of the delta, and the delta is not zero
C14_Witness ==
    /\ hpc["h1"] = "log"
    /\ hloc["h1"].accepted
    /\ hloc["h1"].base_version = 0
    /\ LatestVersion = 2
    /\ _update_buffer # <<>>
    /\ LET buffered == _update_buffer[Len(_update_buffer)].delta
           raw == RawDelta(StepPayload, weights_bank[PathOf(2)])
       IN  /\ Times(buffered, 3) = raw
           /\ raw.weight[1][1] # 0

----------------------------------------------------------------------------
(* Properties of the outlier detector *)

\* C15: for every batch with fewer than 2 updates, is_outlier returns (False,
\* "clean") for every member whatever its weights, and filter_outliers returns the
\* batch unchanged: every member is in the clean list and none carries a flag.
C15_SmallBatchesAreClean ==
    Len(probe.batch) < 2 =>
        /\ probe.stage = "judged" =>
              ~probe.raised /\ probe.verdict = [flagged |-> FALSE, reason |-> "clean"]
        /\ probe.stage = "filtered" =>
              /\ ~probe.out.raised
              /\ probe.out.clean = probe.batch
              /\ probe.out.updates = probe.batch

\* filter_outliers has returned the batch of the single update whose W is one value short
C15_Witness ==
    /\ probe.stage = "filtered"
    /\ Len(probe.batch) = 1
    /\ probe.batch[1].weights = [W |-> <<1>>, b |-> <<0>>]
    /\ probe.out.clean = probe.batch

\* the squared L2 norm of member i of a batch
MemberNorm2(batch, i) == Norm2(_flatten(batch[i].weights))

\* member i's norm is ten times the norm, not zero, that all other members share
TenTimesTheRest(batch, i) ==
    \E j \in 1..Len(batch) \ {i}:
        /\ MemberNorm2(batch, j) > 0
        /\ MemberNorm2(batch, i) = 100 * MemberNorm2(batch, j)
        /\ \A k \in 1..Len(batch) \ {i}: MemberNorm2(batch, k) = MemberNorm2(batch, j)

\* C16 as stated: in every batch of 2 or more updates in which one update's norm is
\* 10 times the common norm of all the others, filter_outliers flags that update
\* with the reason norm_ratio and flags none of the others.
C16_TenfoldNormFlagged ==
    probe.stage = "filtered" /\ ~probe.out.raised /\ Len(probe.batch) >= 2 =>
        \A i \in 1..Len(probe.batch):
            TenTimesTheRest(probe.batch, i) =>
                /\ probe.out.updates[i]._flagged
                /\ probe.out.updates[i]._flag_reason = "norm_ratio"
                /\ \A j \in 1..Len(probe.batch) \ {i}: ~probe.out.updates[j]._flagged

\* C16 amended: in every batch of 3 or more updates in which one update's norm is
\* 10 times the common non-zero norm of all the others, filter_outliers flags that
\* update with the reason norm_ratio and gives no other update that reason: another
\* update is flagged only by the direction check, with the reason cosine_sim.  In
\* such a batch of 2 updates the median norm is 5.5 times the common norm and the
\* update is not flagged for its norm.
C16_TenfoldNormFlaggedFromThree ==
    probe.stage = "filtered" /\ ~probe.out.raised =>
        \A i \in 1..Len(probe.batch):
            TenTimesTheRest(probe.batch, i) =>
                /\ Len(probe.batch) >= 3 =>
                      /\ probe.out.updates[i]._flagged
                      /\ probe.out.updates[i]._flag_reason = "norm_ratio"
                /\ Len(probe.batch) = 2 => probe.out.updates[i]._flag_reason # "norm_ratio"
                /\ \A j \in 1..Len(probe.batch) \ {i}:
                      /\ probe.out.updates[j]._flag_reason # "norm_ratio"
                      /\ probe.out.updates[j]._flagged =>
                            probe.out.updates[j]._flag_reason = "cosine_sim"

\* in a batch of four, the update ten times as long as the three unit steps is
\* flagged for its norm, and a unit step that points against the median direction
\* is flagged by the direction check
C16_Witness ==
    /\ probe.stage = "filtered"
    /\ Len(probe.batch) = 4
    /\ TenTimesTheRest(probe.batch, 2)
    /\ probe.out.updates[2]._flag_reason = "norm_ratio"
    /\ probe.out.updates[4]._flag_reason = "cosine_sim"
    /\ Len(probe.out.clean) = 2

\* what filter_outliers has recorded on an update of the batch
Verdict(u) ==
    [flagged |-> u._flagged, reason |-> IF u._flagged THEN u._flag_reason ELSE "clean"]

\* the batch with members i and j exchanged
Swap(batch, i, j) ==
    [k \in 1..Len(batch) |->
        IF k = i THEN batch[j] ELSE IF k = j THEN batch[i] ELSE batch[k]]

\* C17: filter_outliers decides each update against the full unfiltered batch: the
\* flag and the reason it records for an update are those of is_outlier applied to
\* that update and the batch as it was handed in, and exchanging any two updates of
\* the batch (the order of examination, and with it which updates are already
\* flagged when one is judged) gives every update the same verdict.
C17_JudgedAgainstFullBatch ==
    probe.stage = "filtered" /\ ~probe.out.raised =>
        /\ \A i \in 1..Len(probe.batch):
              Verdict(probe.out.updates[i]) = is_outlier(probe.batch[i], probe.batch)
        /\ probe.out.clean = SelectSeq(probe.batch,
                                 LAMBDA u: ~is_outlier(u, probe.batch).flagged)
        /\ \A i, j \in 1..Len(probe.batch):
              LET o == FilterLoop(Swap(probe.batch, i, j), 1)
              IN  /\ ~o.raised
                  /\ o.updates = Swap(probe.out.updates, i, j)

\* the long update, examined first, is flagged for its norm; the update pointing
\* against the median direction is then still judged, and flagged, against all three
C17_Witness ==
    /\ probe.stage = "filtered"
    /\ Len(probe.batch) = 3
    /\ probe.batch[1].weights = [W |-> <<10, 0>>, b |-> <<0>>]
    /\ probe.batch[2].weights = [W |-> <<1, 0>>, b |-> <<0>>]
    /\ probe.batch[3].weights = [W |-> <<-1, 0>>, b |-> <<0>>]
    /\ Verdict(probe.out.updates[1]).reason = "norm_ratio"
    /\ Verdict(probe.out.updates[3]).reason = "cosine_sim"
    /\ Len(probe.out.clean) = 1

\* the worker's batch has been through filter_outliers and the round goes on
Filtered == wpc \in {"get_weights", "set_weights", "locked", "save_round", "client_stats"}

\* the clean list and the flagged list partition the batch
PartitionsBatch(batch, cleanList, flaggedList) ==
    /\ cleanList = SelectSeq(batch, LAMBDA u: ~u._flagged)
    /\ flaggedList = SelectSeq(batch, LAMBDA u: u._flagged)
    /\ Len(cleanList) + Len(flaggedList) = Len(batch)
    /\ \A i \in 1..Len(batch):
          (\E k \in 1..Len(cleanList): cleanList[k] = batch[i])
              # (\E k \in 1..Len(flaggedList): flaggedList[k] = batch[i])

\* a step of the worker that ends the round of a batch
RoundEnds == wpc \in {"filter", "get_weights", "client_stats"} /\ wpc' = "collect"

\* the batch of the round that ends, with the flags filter_outliers gives it
EndingBatch == IF wpc = "filter" THEN MarkOutliers(updates) ELSE updates

\* C18: for every worker batch the clean list handed to aggregate and the flagged
\* list partition the batch (every update in exactly one, n_clean + n_flagged the
\* batch size), no flagged update is an input of aggregate, and every flagged update
\* is reported with its client id and reason: the round of a batch with flagged
\* updates does not end before _save_round_to_db was called with their flagged_info.
C18_FlaggedPartitionReported ==
    [][/\ Filtered' =>
             /\ PartitionsBatch(updates', clean', Flagged(updates'))
             /\ \A k \in 1..Len(clean'): ~clean'[k]._flagged
       /\ wpc = "save_round" /\ roundHistory' # roundHistory =>
             /\ roundHistory'[Len(roundHistory')].n_flagged = Len(Flagged(updates))
             /\ roundHistory'[Len(roundHistory')].flagged_info =
                    [i \in 1..Len(Flagged(updates)) |->
                        [client_id |-> Flagged(updates)[i].client_id,
                         reason |-> Flagged(updates)[i]._flag_reason]]
       /\ RoundEnds /\ Flagged(EndingBatch) # <<>> => wpc = "client_stats"]_vars

\* s without its member at position i
WithoutAt(s, i) == SubSeq(s, 1, i - 1) \o SubSeq(s, i + 1, Len(s))

IndexOfLeast(s) == CHOOSE i \in 1..Len(s): \A j \in 1..Len(s): s[i] <= s[j]

IndexOfGreatest(s) == CHOOSE i \in 1..Len(s): \A j \in 1..Len(s): s[i] >= s[j]

\* s after k times removing one least and one greatest value
RECURSIVE DropTails(_, _)
DropTails(s, k) ==
    IF k = 0 THEN s
    ELSE LET t == WithoutAt(s, IndexOfLeast(s))
         IN  DropTails(WithoutAt(t, IndexOfGreatest(t)), k - 1)

\* the value the rule gives for one coordinate's n contributed values
ExpectedTrimmedMean(column) ==
    LET n == Len(column)
        f == (n * TRIM_RATIO_NUM) \div TRIM_RATIO_DEN
        k == IF f >= 1 THEN f ELSE 1
        kept == IF n - 2 * k <= 0 THEN column ELSE DropTails(column, k)
    IN  Rat(SumSeq(kept), Len(kept))

\* C19: _trimmed_mean returns, for every coordinate, the mean of the n contributed
\* values after dropping the k = max(1, floor(n * TRIM_RATIO)) least and the k
\* greatest of them, and the plain mean of all n values when n - 2k <= 0; for the
\* scalar updates 1, 2, 3, 4, 5 and TRIM_RATIO = 0.2 the result is 3.
C19_TrimmedMeanRule ==
    probe.stage = "trimmed" =>
        /\ DOMAIN probe.out = DOMAIN probe.template
        /\ \A j \in 1..Len(_flatten(probe.template)):
              _flatten(probe.out)[j] = ExpectedTrimmedMean(Column(Deltas(probe.batch), j))
        /\ Deltas(probe.batch) = <<(<<1>>), (<<2>>), (<<3>>), (<<4>>), (<<5>>)>> =>
              probe.out = [W |-> <<RInt(3)>>]

\* the updates 5, 1, 4, 2, 3 with second values 0, 1, 1, 4, 4: the first coordinate
\* averages 2, 3, 4 and the second 1, 1, 4
C19_Witness ==
    /\ probe.stage = "trimmed"
    /\ Deltas(probe.batch) = <<(<<5, 0>>), (<<1, 1>>), (<<4, 1>>), (<<2, 4>>), (<<3, 4>>)>>
    /\ probe.out = [W |-> <<RInt(3)>>, b |-> <<RInt(2)>>]

\* the mean of one coordinate's n buffered values after dropping
\* k = max(1, floor(n * trim_ratio)) values from each tail when n - 2k > 0
EngineTrimmedMeanRule(column) ==
    LET n == Len(column)
        k == Max(1, n \div ENGINE_TRIM_DEN)
        sorted == SortRats(column)
    IN  IF n - 2 * k > 0 THEN RMean(SubSeq(sorted, k + 1, n - k)) ELSE RMean(sorted)

\* x lies between the least and the greatest value of s
WithinRange(x, s) ==
    /\ \E i \in 1..Len(s): ~RLess(x, s[i])
    /\ \E i \in 1..Len(s): ~RLess(s[i], x)

\* C20: the aggregation step of process_update applies to the base weights a delta
\* that is, for every coordinate, the mean of the buffered values after dropping
\* k = max(1, floor(n * 0.1)) values from each tail; for a buffer of 5 deltas the
\* least and the greatest value are left out, so the aggregate of each coordinate
\* lies within the range of the four values that remain when a value differing
\* from all the others is set aside.
C20_EngineTrimsEachTail ==
    [][\A h \in Handlers:
          hpc[h] = "log" /\ hpc'[h] = "create" =>
              LET agg == trimmed_mean(BufferDeltas)
                  n == Len(BufferDeltas)
              IN  \A k \in DOMAIN agg: \A j \in 1..Len(agg[k]):
                      LET column == [i \in 1..n |-> BufferDeltas[i][k][j]]
                      IN  /\ hloc'[h].new_weights[1] =
                                _apply_delta(hloc[h].base_weights[1], agg)
                          /\ agg[k][j] = EngineTrimmedMeanRule(column)
                          /\ \A e \in 1..n:
                                (n = 5 /\ \A i \in 1..n \ {e}: column[i] # column[e])
                                    => WithinRange(agg[k][j], WithoutAt(column, e))]_vars

\* the median of one coordinate's values: what is left after removing a least
\* and a greatest value until one or two values remain, averaged
ExpectedMedian(column) ==
    LET kept == DropTails(column, (Len(column) - 1) \div 2)
    IN  Rat(SumSeq(kept), Len(kept))

\* the sets of contributors that are more than half of n contributors
Majorities(n) == {H \in SUBSET (1..n) : 2 * Cardinality(H) > n}

\* the rational x lies between the least and the greatest of the integers column[i], i in H
BetweenHonest(x, column, H) ==
    /\ \E i \in H: column[i] * x[2] <= x[1]
    /\ \E i \in H: x[1] <= column[i] * x[2]

\* C21: _coordinate_median returns, for every coordinate, the median of the
\* contributed values (the middle value for odd n, the mean of the two middle
\* values for even n): 3 for the scalar updates 1,2,3,4,5 and 5/2 for 1,2,3,4; and
\* every output coordinate lies between the least and the greatest value of every
\* set of contributors that is more than half of the batch.
C21_CoordinateMedian ==
    probe.stage = "median" =>
        /\ DOMAIN probe.out = DOMAIN probe.template
        /\ \A j \in 1..Len(_flatten(probe.template)):
              LET column == Column(Deltas(probe.batch), j)
              IN  /\ _flatten(probe.out)[j] = ExpectedMedian(column)
                  /\ \A H \in Majorities(Len(column)):
                        BetweenHonest(_flatten(probe.out)[j], column, H)
        /\ Deltas(probe.batch) = <<(<<1>>), (<<2>>), (<<3>>), (<<4>>), (<<5>>)>> =>
              probe.out = [W |-> <<RInt(3)>>]
        /\ Deltas(probe.batch) = <<(<<1>>), (<<2>>), (<<3>>), (<<4>>)>> =>
              probe.out = [W |-> <<(<<5, 2>>)>>]

\* four updates 4, 1, 3, 2 with second values 1, 1, 4, 4: the medians are 5/2 and 5/2
C21_Witness ==
    /\ probe.stage = "median"
    /\ Deltas(probe.batch) = <<(<<4, 1>>), (<<1, 1>>), (<<3, 4>>), (<<2, 4>>)>>
    /\ probe.out = [W |-> <<(<<5, 2>>)>>, b |-> <<(<<5, 2>>)>>]

\* the sum over the contributors of value * n_samples / (sum of all n_samples), added
\* up term by term as rationals; n_samples is 1 where the key is absent
SampleWeightedSum(batch, j) ==
    LET count(i) == IF "n_samples" \in DOMAIN batch[i] THEN batch[i].n_samples ELSE 1
        total == SumSeq([i \in 1..Len(batch) |-> count(i)])
    IN  RSum([i \in 1..Len(batch) |->
                 Rat(_flatten(batch[i].weights)[j] * count(i), total)])

\* all contributors have the same n_samples (absent counting as 1)
EqualSamples(batch) ==
    \A i, k \in 1..Len(batch): NSamples(batch[i]) = NSamples(batch[k])

\* C22: _fedavg returns, for every coordinate, the sum over the contributors of
\* value * n_samples / (sum of all n_samples), n_samples being 1 where absent: the
\* values 0 and 4 with n_samples 1 and 3 give 3, and updates with equal n_samples
\* give the plain mean.
C22_FedavgWeightsBySamples ==
    probe.stage = "fedavg" =>
        /\ DOMAIN probe.out = DOMAIN probe.template
        /\ \A j \in 1..Len(_flatten(probe.template)):
              /\ _flatten(probe.out)[j] = SampleWeightedSum(probe.batch, j)
              /\ EqualSamples(probe.batch) =>
                    _flatten(probe.out)[j] = MeanOf(Column(Deltas(probe.batch), j))
        /\ ( /\ Deltas(probe.batch) = <<(<<0>>), (<<4>>)>>
             /\ NSamples(probe.batch[1]) = 1
             /\ NSamples(probe.batch[2]) = 3 ) => probe.out = [W |-> <<RInt(3)>>]

\* the values 0 and 4, the first update without the key n_samples and the second
\* with n_samples = 3
C22_Witness ==
    /\ probe.stage = "fedavg"
    /\ Deltas(probe.batch) = <<(<<0>>), (<<4>>)>>
    /\ "n_samples" \notin DOMAIN probe.batch[1]
    /\ "n_samples" \in DOMAIN probe.batch[2]
    /\ probe.batch[2].n_samples = 3
    /\ probe.out = [W |-> <<RInt(3)>>]

\* every value of a weights mapping is a finite number
AllFinite(weights) ==
    \A k \in DOMAIN weights: \A j \in 1..Len(weights[k]): IsFinite(weights[k][j])

\* C23: no nan and no infinite value is published as global weights.  aggregate
\* returns, for each of the three algorithms and in every coordinate, 0 where the
\* algorithm's result is nan, POSINF where it is inf, -POSINF where it is -inf and
\* the result itself where it is finite; the weights the worker hands to set_weights,
\* the weights of the model store and of its snapshot, and every version file the
\* engine writes hold only finite numbers.
C23_OnlyFiniteWeightsPublished ==
    /\ probe.stage = "aggregated" =>
          /\ AllFinite(probe.out)
          /\ \A k \in DOMAIN probe.raw: \A j \in 1..Len(probe.raw[k]):
                probe.out[k][j] = (IF IsNaN(probe.raw[k][j]) THEN RInt(0)
                                   ELSE IF probe.raw[k][j] = PosInf THEN RInt(POSINF)
                                   ELSE IF probe.raw[k][j] = NegInf THEN RInt(-POSINF)
                                   ELSE probe.raw[k][j])
    /\ wpc \in {"set_weights", "locked"} => AllFinite(new_weights[1])
    /\ AllFinite(_weights)
    /\ disk.content # <<>> => AllFinite(disk.content[1].weights)
    /\ \A path \in DOMAIN weights_bank: AllFinite(weights_bank[path])
    /\ \A h \in Handlers: hloc[h].new_weights # <<>> => AllFinite(hloc[h].new_weights[1])

\* the worker has committed the aggregate of a batch whose trimmed mean of the first
\* coordinate was inf: POSINF is published in its place
C23_Witness ==
    /\ probe.stage = "worker"
    /\ nCompleted = 1
    /\ _weights.W[1] = RInt(POSINF)
    /\ disk.content # <<>>
    /\ disk.content[1].weights = _weights

\* the worker leaves the drain loop
WindowEnds == wpc = "collect" /\ wpc' # "collect"

\* C24: the collection window ends exactly when the batch holds N_MIN_UPDATES
\* updates or MAX_WAIT_SECONDS have passed since the window started, whichever
\* comes first: a batch never holds more than N_MIN_UPDATES updates, the worker is
\* in the drain loop only with fewer than that and within MAX_WAIT_SECONDS of the
\* window's start, it takes no update once that time has passed, and it leaves the
\* loop only with a full batch or at that time.  A window that ends with no update
\* changes no statistic, nothing of the model store and no audit record, runs no
\* detector, aggregator or commit, and is followed by a pause and a fresh window
\* with a new deadline.
C24_CollectionWindow ==
    [][/\ Len(updates') <= N_MIN_UPDATES
       /\ wpc' = "collect" =>
             Len(updates') < N_MIN_UPDATES /\ probe'.clock <= MAX_WAIT_SECONDS
       /\ wpc = "collect" /\ probe.clock >= MAX_WAIT_SECONDS => updates' = updates
       /\ WindowEnds =>
             \/ Len(updates') = N_MIN_UPDATES /\ probe.clock < MAX_WAIT_SECONDS
             \/ probe.clock = MAX_WAIT_SECONDS
       /\ WindowEnds /\ updates' = <<>> =>
             /\ wpc' = "sleep"
             /\ UNCHANGED <<_stats, storeVars, roundHistory, nAllFlagged, nAggFailed, nAggOk>>
       /\ wpc = "sleep" /\ wpc' # "sleep" =>
             /\ wpc' = "collect"
             /\ updates' = <<>>
             /\ probe' = NewWindow
             /\ UNCHANGED <<_stats, storeVars, roundHistory, nAllFlagged, nAggFailed, nAggOk>>]_vars

\* an update arrived 20 seconds into the window and the window ended at its
\* deadline with that one update
C24_Witness ==
    /\ wpc = "filter"
    /\ Len(updates) = 1
    /\ probe.clock = MAX_WAIT_SECONDS
    /\ _stats.total_updates_received = 1

\* C25: the batch scheduler has no terminal state: whatever the dequeued updates
\* contain, the worker task never ends with an exception, so that after every batch
\* it is back in the drain loop and serves later updates.
C25_WorkerHasNoTerminalState == wpc # "crashed"

\* the worker is about to call aggregate and aggregate will raise
AggregateFails == wpc = "get_weights" /\ AggregateRaises(clean, get_weights.weights)

\* C26: when the aggregation algorithm raises, the round is abandoned: version,
\* weights and snapshot of the model store are unchanged, no audit record is
\* written, the updates of the batch are dropped and not put back on the queue, no
\* response already given to a client changes, and the worker is in a new
\* collection window with an empty batch.
C26_FailedAggregationAbandonsRound ==
    [][AggregateFails /\ wpc' # wpc =>
          /\ UNCHANGED <<storeVars, roundHistory, update_queue, admission, _stats>>
          /\ wpc' = "collect"
          /\ updates' = <<>>
          /\ clean' = <<>>
          /\ \A i \in 1..Len(updates): ~\E j \in 1..Len(update_queue'):
                 update_queue'[j].id = updates[i].id]_vars

\* a round was abandoned after an earlier one was committed and recorded, and the
\* store still holds the committed round
C26_Witness ==
    /\ nAggFailed = 1
    /\ wpc = "collect"
    /\ updates = <<>>
    /\ _round_id = initRound + 1
    /\ Len(roundHistory) = 1

\* the write of the round record fails
SaveRoundFails == wpc = "save_round" /\ wpc' # wpc /\ roundHistory' = roundHistory

\* the write of the client statistics fails
ClientStatsFails == wpc = "client_stats" /\ wpc' # wpc /\ probe'.stats_lost # probe.stats_lost

\* C27: a failure of the audit persistence after a commit is swallowed: the step on
\* which the round record or the client statistics fail to be written leaves
\* version, weights and snapshot as committed and takes the worker on (to the
\* client statistics, resp. to the next collection window); the write is not tried
\* again, so a round whose record was lost never gets a row and lost client
\* statistics are never added; and the round is counted as aggregated all the same.
C27_AuditFailureSwallowed ==
    [][/\ SaveRoundFails =>
             /\ UNCHANGED <<storeVars, _stats>>
             /\ wpc' = "client_stats"
             /\ probe'.ClientRecord = probe.ClientRecord
       /\ ClientStatsFails =>
             /\ UNCHANGED <<storeVars, roundHistory>>
             /\ wpc' = "collect"
             /\ probe'.ClientRecord = probe.ClientRecord
       /\ wpc = "client_stats" /\ wpc' # wpc =>
             _stats'.total_rounds_aggregated = _stats.total_rounds_aggregated + 1
       /\ wpc' = "collect" =>
             /\ _stats'.total_rounds_aggregated = nCompleted'
             /\ _round_id' = initRound' + nCompleted'
       /\ \A i \in 1..Len(roundHistory'): roundHistory'[i].round_id \notin probe'.lost
       /\ roundHistory' # roundHistory => wpc = "save_round"
       /\ probe'.ClientRecord # probe.ClientRecord => wpc \in {"save_round", "client_stats"}
       /\ wpc \in {"save_round", "client_stats"} => wpc' # wpc \/ UNCHANGED <<wpc, roundHistory, probe>>]_vars

\* round 1 was committed, both of its audit writes failed, and the worker is in the
\* next collection window with the round counted and the store at round 1
C27_Witness ==
    /\ probe.stage = "audit"
    /\ probe.lost = {1}
    /\ probe.stats_lost = {1}
    /\ wpc = "collect"
    /\ _round_id = 1
    /\ disk.status = "ok"
    /\ roundHistory = <<>>
    /\ probe.ClientRecord = NoRecords
    /\ _stats.total_rounds_aggregated = 1

\* an audit write of the round just committed has been started and has not returned
AuditWritePending == wpc \in {"save_round", "client_stats"}

\* C28: audit persistence does not block future rounds: while the audit write of
\* the committed round is still pending and an update is waiting on the queue, the
\* worker is able to take it into the next collection window.
C28_AuditDoesNotBlockCollection ==
    AuditWritePending /\ update_queue # <<>> => ENABLED WorkerDequeue

\* C29: cancelling the worker at whichever await it is suspended never publishes a
\* partial version: after the cancellation the lock is free and the store holds a
\* version together with the weights committed as that version, which is the
\* result of the round in flight with the version one higher if set_weights had run
\* and the previous version with its weights if it had not; and a readable
\* weights.json always holds a version together with the weights committed as it.
C29_CancellationPublishesNoPartialVersion ==
    /\ wpc = "cancelled" =>
          /\ _lock = "free"
          /\ StorePair \in probe.committed
          /\ StorePair = lastPublished
          /\ _round_id = initRound + nCompleted
          /\ new_round_id # <<>> => _round_id = new_round_id[1] /\ _weights = new_weights[1]
    /\ disk.status = "ok" => disk.content[1] \in probe.committed
    /\ \A x, y \in probe.committed: x.round_id = y.round_id => x = y

\* the worker was cancelled in the audit write of round 2, after set_weights had
\* returned: the store and the snapshot hold round 2 with the aggregated weights
C29_Witness ==
    /\ wpc = "cancelled"
    /\ new_round_id = <<2>>
    /\ _round_id = 2
    /\ _weights = new_weights[1]
    /\ _weights # OldSnapshot.weights
    /\ disk = FileWith(StorePair)
    /\ roundHistory = <<>>

\* the process is started again
Restarts == probe'.restarts # probe.restarts

\* C30: after any sequence of commits followed by a restart, the model store starts
\* from the last committed version and weights; version 0 with fresh default
\* weights is used only when no snapshot was ever persisted, that is when nothing
\* had been committed since the first start without a file.
C30_RestartResumesLastCommit ==
    [][Restarts =>
          /\ _round_id' = lastPublished.round_id
          /\ lastPublished.round_id > 0 => _weights' = lastPublished.weights]_vars

\* the dict as a mapping: Python compares dicts without regard to insertion order
AsMap(items) == [k \in KeySet(items) |-> items[Get(items, k)][2]]

\* the values of an array as they were given
RawValues(arr) == IF arr.dim = 1 THEN arr.data ELSE ConcatAll(arr.data)

\* the layers one after the other in the order of their names, each row by row
LayersInNameOrder(items) ==
    ConcatAll([r \in 1..Cardinality(DOMAIN KeyRank) |->
                  IF \E i \in 1..Len(items): KeyRank[items[i][1]] = r
                  THEN Flat(items[CHOOSE i \in 1..Len(items): KeyRank[items[i][1]] = r][2])
                  ELSE <<>>])

\* a weight map with at least one layer whose values float64 holds exactly
WellFormed(items) ==
    /\ items # <<>>
    /\ \A i \in 1..Len(items): ~HasValue(RawValues(items[i][2]), BigOdd)

\* the same items in another insertion order
Reorderings(items) ==
    {[i \in 1..Len(items) |-> items[f[i]]] :
        f \in {g \in [1..Len(items) -> 1..Len(items)] : \A i, j \in 1..Len(items): g[i] = g[j] => i = j}}

\* C31: for every well-formed weight map w, _unflatten(_flatten(w), w) equals w in
\* keys, shapes and values; _flatten(w) is the same vector for every insertion
\* order of w's keys, the layers in the order of their names and each in row-major
\* order; and _unflatten returns exactly the key set of its template.
C31_CodecRoundTrip ==
    /\ probe.stage = "round_trip" =>
          /\ WellFormed(probe.w) => AsMap(probe.back) = AsMap(probe.w)
          /\ KeySet(probe.back) = KeySet(probe.w) /\ Len(probe.back) = Len(probe.w)
          /\ \A r \in Reorderings(probe.w): _flatten_dict(r) = probe.flat
          /\ probe.flat = LayersInNameOrder(probe.w)
    /\ probe.stage = "unflattened" /\ ~probe.raised =>
          /\ KeySet(probe.out) = KeySet(probe.template)
          /\ Len(probe.out) = Len(probe.template)

\* b = [[1, 2], [3, 4]] was inserted before W = [3]: the vector is 3, 1, 2, 3, 4 and
\* the round trip gives both layers back in their shapes
C31_Witness ==
    /\ probe.stage = "round_trip"
    /\ KeysOf(probe.w) = <<"b", "W">>
    /\ probe.flat = <<3, 1, 2, 3, 4>>
    /\ AsMap(probe.back) = [W |-> [dim |-> 1, data |-> <<3>>],
                            b |-> [dim |-> 2, data |-> <<(<<1, 2>>), (<<3, 4>>)>>]]

\* handler h aggregates the buffer on this step
Aggregates(h) == hloc[h].op = "submit" /\ hpc[h] = "log" /\ hpc'[h] = "create"

\* the sum of the buffered deltas divided by their number, in every coordinate
MeanOfBuffer ==
    [k \in DOMAIN _update_buffer[1].delta |->
        [j \in 1..Len(_update_buffer[1].delta[k]) |->
            RMul(RSum([i \in 1..Len(_update_buffer) |-> _update_buffer[i].delta[k][j]]),
                 <<1, Len(_update_buffer)>>)]]

\* C32: the reference direction is empty until the first round is aggregated, and
\* while it is empty every update that passes validation is accepted; every
\* aggregation sets it, once, to the mean of the deltas of the batch it aggregates,
\* so that it is compared only with submissions of later batches; and no other step
\* (a rejected or a buffered submission, the creation of the version row, rollback,
\* delete_latest) changes it.
C32_ReferenceDirectionSingleWriter ==
    [][/\ _reference_direction' = <<>> => \A i \in DOMAIN consumed': consumed'[i] = 0
       /\ \A h \in Handlers:
             /\ hloc[h].op = "submit" /\ hpc[h] = "loaded" /\ hpc'[h] = "log"
                   /\ _reference_direction = <<>>
                => \/ hloc'[h].accepted /\ Len(_update_buffer') = Len(_update_buffer) + 1
                   \/ ~validate_update(_compute_delta(hloc[h].client_weights[1],
                                                      hloc'[h].base_weights[1]), NORM_THRESHOLD)
             /\ Aggregates(h) =>
                   /\ Len(_update_buffer) >= BUFFER_SIZE
                   /\ _reference_direction' = <<MeanOfBuffer>>
                   /\ _update_buffer' = <<>>
       /\ _reference_direction' # _reference_direction => \E h \in Handlers: Aggregates(h)]_vars

\* the first round set the reference to the step (5, 5); an opposite step was then
\* rejected and a rollback was made, and the reference is still (5, 5)
C32_Witness ==
    /\ _reference_direction = <<[weight |-> <<RInt(5)>>, bias |-> <<RInt(5)>>]>>
    /\ _session_rejected = 1
    /\ _session_accepted = BUFFER_SIZE
    /\ \E i \in 1..Len(eventLog): eventLog[i].op = "rollback"
    /\ \A h \in Handlers: hpc[h] = "idle"

\* two weight maps have the same layers with the same shapes
SameShape(x, y) == DOMAIN x = DOMAIN y /\ \A k \in DOMAIN x: Len(x[k]) = Len(y[k])

AllZero(v) == \A j \in 1..Len(v): v[j] = RInt(0)

\* handler h computes its delta and buffers it on this step
Buffers(h) ==
    /\ hloc[h].op = "submit" /\ hpc[h] = "loaded" /\ hpc'[h] = "log"
    /\ Len(_update_buffer') = Len(_update_buffer) + 1

\* C33: every delta in the engine's buffer has exactly the layers of the base
\* weights it was computed against, each in the base layer's shape: layers of the
\* payload that the base does not have are dropped, and a base layer that the
\* payload lacks or gives in another shape is all zero in the delta; hence the
\* deltas aggregated together agree in layers and shapes, and so does the version
\* made from them.
C33_DeltasHaveBaseKeys ==
    [][/\ \A h \in Handlers: Buffers(h) =>
             LET delta == _update_buffer'[Len(_update_buffer')].delta
                 base == hloc'[h].base_weights[1]
                 payload == hloc[h].client_weights[1]
             IN  /\ SameShape(delta, base)
                 /\ \A k \in DOMAIN base:
                       k \notin DOMAIN payload \/ Len(payload[k]) # Len(base[k])
                          => AllZero(delta[k])
       /\ \A i, j \in 1..Len(_update_buffer'):
             SameShape(_update_buffer'[i].delta, _update_buffer'[j].delta)
       /\ \A h \in Handlers: Aggregates(h) =>
             SameShape(hloc'[h].new_weights[1], _update_buffer[1].delta)]_vars

\* the buffer holds the deltas of a payload without the layer bias, of one with a
\* layer of another shape and of one with an extra layer, all with the layers
\* weight and bias of one value each
C33_Witness ==
    /\ Len(_update_buffer) = 3
    /\ _update_buffer[1].delta = [weight |-> <<RInt(5)>>, bias |-> <<RInt(0)>>]
    /\ _update_buffer[2].delta = [weight |-> <<RInt(0)>>, bias |-> <<RInt(5)>>]
    /\ _update_buffer[3].delta = [weight |-> <<RInt(5)>>, bias |-> <<RInt(5)>>]
    /\ hloc["h1"].client_weights = <<ExtraLayerPayload>>
    /\ hpc["h1"] = "log"

IsZeroVector(v) == \A j \in 1..Len(v): v[j] = 0

\* C34: an update whose flattened vector is all zeros is flagged by is_outlier in
\* no batch (its norm ratio is 0 and its cosine similarity counts as 1.0), and no
\* update is flagged by the direction check in a batch whose coordinate-wise
\* median is the zero vector.
C34_ZeroVectorsNeverFlagged ==
    probe.stage = "judged" /\ ~probe.raised =>
        /\ IsZeroVector(_flatten(probe.batch[probe.member].weights)) => ~probe.verdict.flagged
        /\ /\ Len(probe.batch) >= 2
           /\ Stackable(Deltas(probe.batch))
           /\ IsZeroVector(MedianDirTwice(Deltas(probe.batch)))
           => probe.verdict.reason # "cosine_sim"

\* the zero update next to (1, 0, 0) and (-1, 0, 0): the median of the batch is the
\* zero vector, the median norm is 1, and the zero update is clean
C34_Witness ==
    /\ probe.stage = "judged"
    /\ ~probe.raised
    /\ Len(probe.batch) = 3
    /\ Deltas(probe.batch) = <<(<<1, 0, 0>>), (<<0, 0, 0>>), (<<-1, 0, 0>>)>>
    /\ probe.member = 2
    /\ probe.verdict = [flagged |-> FALSE, reason |-> "clean"]

----------------------------------------------------------------------------
\* the base weights and the version number handler h read at lines 107-109 are
\* those of the row that is the latest now
BaseIsLatest(h) ==
    /\ GlobalModel # <<>>
    /\ hloc[h].current_version = MaxOf(Versions(GlobalModel))
    /\ \A l \in LatestChoices(GlobalModel):
          /\ Exists(l[1].weights_path)
          /\ hloc[h].base_weights = <<weights_bank[l[1].weights_path]>>

\* C35: every aggregation applies its aggregate to the weights of the version that
\* is the latest at that moment: the weights it wrote are the latest version's
\* weights plus the trimmed mean of the buffered deltas, under any interleaving of
\* concurrent submissions.
C35_AggregatesOnLatestBase ==
    [][\A h \in Handlers:
          Aggregates(h) =>
              /\ BaseIsLatest(h)
              /\ \A l \in LatestChoices(GlobalModel):
                    hloc'[h].new_weights =
                        <<_apply_delta(weights_bank[l[1].weights_path],
                                       trimmed_mean(BufferDeltas))>>]_vars

----------------------------------------------------------------------------
\* C36: under any interleaving of concurrent process_update calls the buffer never
\* holds more than BUFFER_SIZE deltas, every aggregation consumes exactly
\* BUFFER_SIZE deltas and leaves the buffer empty, and the call that aggregates
\* (and is answered "accepted" with the new version) is the one whose delta
\* brought the buffer to BUFFER_SIZE.
C36_BufferNeverExceedsCapacity ==
    [][/\ Len(_update_buffer') <= BUFFER_SIZE
       /\ \A h \in Handlers:
             Aggregates(h) =>
                 /\ Len(_update_buffer) = BUFFER_SIZE
                 /\ _update_buffer' = <<>>
                 /\ _update_buffer[BUFFER_SIZE].id = hloc[h].gid]_vars

----------------------------------------------------------------------------
\* the rollback or delete_latest request of handler h returns
AdminCompletes(h) ==
    /\ hloc[h].op \in {"rollback", "delete"}
    /\ hpc[h] \in {"create", "clear"}
    /\ hpc'[h] = "idle"

\* the buffer holds the delta of the running submission g, computed against the
\* weights of the row that was the latest when the request of h began
PreOperationDelta(h, g) ==
    /\ hloc[h].latest # <<>>
    /\ hloc'[g].op = "submit"
    /\ hpc'[g] = "log"
    /\ hloc'[g].latest = hloc[h].latest
    /\ hloc'[g].gid \in {_update_buffer'[i].id : i \in 1..Len(_update_buffer')}

\* C37: when a rollback or delete_latest completes, the buffer holds no delta that
\* was computed against the weights of the version that was the latest before the
\* operation, whatever submissions are in flight.
C37_NoPreOperationDeltaSurvives ==
    [][\A h \in Handlers:
          AdminCompletes(h) => \A g \in Handlers \ {h}: ~PreOperationDelta(h, g)]_vars

----------------------------------------------------------------------------
\* update i waits in update_queue
Queued(i) == \E k \in 1..Len(update_queue): update_queue[k].id = i

\* the rounds that have reached an outcome: committed, abandoned because every
\* update was flagged, abandoned because aggregate raised
Outcomes == nCompleted + nAllFlagged + nAggFailed

\* C38: with a fair worker task, every update put on update_queue is eventually
\* dequeued into a batch, and every batch whose window has closed eventually
\* reaches one outcome: a commit, or an abandonment because all updates were
\* flagged or because the aggregation failed.
C38_EveryUpdateReachesAnOutcome ==
    /\ \A i \in 1..MaxFairUpdates: Queued(i) ~> (batchLog[i] = 1)
    /\ \A n \in 0..MaxFairUpdates: (wpc = "filter" /\ Outcomes = n) ~> (Outcomes = n + 1)

----------------------------------------------------------------------------
\* the request of handler h is at Client.objects.get with a client_id that the
\* Client table does not hold, and the lookup completes
LookupFails(h) ==
    /\ probe.stage = "registry"
    /\ hpc[h] = "client"
    /\ probe.client_id[h] \notin probe.Client
    /\ hpc'[h] # "client"

\* C39: a submission from a client_id that is not registered is answered with
\* status rejected and changes nothing: the call returns from the lookup, before
\* a delta is computed or buffered and before the log and trust writes; the
\* buffer, the session counters, the versions and their files and the reference
\* direction are unchanged, and its id is never input to an aggregation.
C39_UnregisteredClientRejected ==
    [][/\ \A h \in Handlers:
             LookupFails(h) =>
                 /\ hpc'[h] = "idle"
                 /\ hloc[h].gid \in probe'.unauthorized
                 /\ UNCHANGED <<engineState, eventLog, consumed>>
       /\ probe.stage = "registry" =>
             \A g \in probe'.unauthorized:
                 /\ consumed'[g] = 0
                 /\ g \notin {_update_buffer'[i].id : i \in 1..Len(_update_buffer')}]_vars

\* a call of a client_id that is still unknown was rejected while deltas of
\* registered clients wait in the buffer
C39_Witness ==
    /\ probe.stage = "registry"
    /\ probe.unauthorized # {}
    /\ Len(_update_buffer) >= 1
    /\ "node_x" \notin probe.Client

====
